---------------------------- MODULE Spec2Model ----------------------------
(***************************************************************************)
(* cv-to-github-readme: the text source adapter (_read_pdf_text), the      *)
(* field extractor (extract_data_from_pdf) and the document renderer       *)
(* (generate_readme) of src/readme_parser.py, and the GitHub lookup        *)
(* (CVParser.extract_github_info) of src/cv_parser.py, as state machines   *)
(* over real strings.                                                      *)
(*                                                                         *)
(* Strings are TLA+ strings handled character by character (Len, SubSeq,   *)
(* \o).  The modelled alphabet is ASCII: the accented letters that the     *)
(* source's character classes also accept, and the emoji of the fixed      *)
(* markup lines, cannot be written in a TLA+ string; the emoji are spelt   *)
(* :name: in the markup lines below.                                       *)
(***************************************************************************)
EXTENDS Integers, Sequences, FiniteSets, TLC

VARIABLES pc, pdf, read_result, text, data, readme, earlier, result, network,
          cli, edited, steps, out_file, exit_status

vars == <<pc, pdf, read_result, text, data, readme, earlier, result, network,
          cli, edited, steps, out_file, exit_status>>

\* the state of a run of main of app.py
main_vars == <<cli, edited, steps, out_file, exit_status>>

(***************************************************************************)
(* Bounds of the model.                                                    *)
(***************************************************************************)
MaxPages == 2

MaxProfiles == 2

MaxLines == 2

\* runs of the pipeline on one text
MaxRuns == 2

(***************************************************************************)
(* Python values: the outcome of a call is a return value or an exception. *)
(***************************************************************************)
Return(v) == [kind |-> "return", value |-> v]

Raise(e) == [kind |-> "raise", value |-> e]

NotCalled == [kind |-> "none", value |-> ""]

\* Optional[str]: None is the empty sequence, a str s is << s >>
None == << >>

\* the result dict of extract_github_info as it is initialised
NoInfo == [username |-> None, verified |-> FALSE, text_extracted |-> FALSE]

\* the GitHub API as one run meets it: what a request does (outcome), and the
\* number of requests made so far
NoNetwork == [outcome |-> [raised |-> "", status |-> 0], calls |-> 0]

(***************************************************************************)
(* str helpers.                                                            *)
(***************************************************************************)
Ch(s, i) == SubSeq(s, i, i)

\* the indices of s, in order, that satisfy P
Positions(s, P(_)) == SelectSeq([i \in 1..Len(s) |-> i], P)

\* sep.join(seq[lo..hi]), by halves
RECURSIVE JoinRange(_, _, _, _)
JoinRange(seq, sep, lo, hi) ==
    IF lo > hi THEN ""
    ELSE IF lo = hi THEN seq[lo]
    ELSE LET mid == (lo + hi) \div 2
         IN  JoinRange(seq, sep, lo, mid) \o sep \o JoinRange(seq, sep, mid + 1, hi)

\* sep.join(seq)
JoinWith(seq, sep) == JoinRange(seq, sep, 1, Len(seq))

\* the pieces of s between the positions cuts (the separators)
PiecesAt(s, cuts) ==
    [k \in 1..(Len(cuts) + 1) |->
        SubSeq(s,
               IF k = 1 THEN 1 ELSE cuts[k - 1] + 1,
               IF k > Len(cuts) THEN Len(s) ELSE cuts[k] - 1)]

\* s.split(sep) for a one-character separator
SplitOn(s, sep) == PiecesAt(s, Positions(s, LAMBDA i : Ch(s, i) = sep))

(***************************************************************************)
(* Text source adapter: _read_pdf_text.                                    *)
(*                                                                         *)
(* A document is what the two backends make of it: whether each backend    *)
(* can be imported and can open the file, and, for every page, what the    *)
(* backend's extract_text() does there: return text, return the empty      *)
(* string, return None, or raise.                                          *)
(***************************************************************************)
BackendStatus == {"missing", "open_fails", "ok"}

PageOutcome == {"text", "empty", "none", "raise"}

PageTexts == << "Jane Doe", "jane@example.com", "Skills: Python, React", "github.com/janedoe" >>

Page == [plumber : PageOutcome, pypdf : PageOutcome]

PageSeqs == UNION { [1..n -> Page] : n \in 0..MaxPages }

Pdfs == [plumber : BackendStatus, pypdf : BackendStatus, pages : PageSeqs]

\* p.extract_text() of page i when it does not raise: a str or None ("" here
\* stands for both falsy values, which `or ""` maps to "").
extract_text(outcome, i) == IF outcome = "text" THEN PageTexts[i] ELSE ""

PlumberPages_Reversed(d) ==
    [i \in 1..Len(d.pages) |->
        extract_text(d.pages[Len(d.pages) + 1 - i].plumber, Len(d.pages) + 1 - i)]

\* [p.extract_text() or "" for p in pdf.pages], when no page raises
PlumberPages(d) == [i \in 1..Len(d.pages) |-> extract_text(d.pages[i].plumber, i)]

\* the loop of the fallback: a page that raises contributes ""
PyPdfTextOfPage(d, i) ==
    IF d.pages[i].pypdf = "raise" THEN "" ELSE extract_text(d.pages[i].pypdf, i)

RECURSIVE PyPdfTextsFrom(_, _)
PyPdfTextsFrom(d, i) ==
    IF i > Len(d.pages) THEN << >>
    ELSE << PyPdfTextOfPage(d, i) >> \o PyPdfTextsFrom(d, i + 1)

PyPdfTexts(d) == PyPdfTextsFrom(d, 1)

\* the primary try block completes: import, open and every page's extract_text
PlumberSucceeds(d) ==
    /\ d.plumber = "ok"
    /\ \A i \in 1..Len(d.pages) : d.pages[i].plumber # "raise"

\* the fallback block completes: import and PdfReader(path)
PyPdfSucceeds(d) == d.pypdf = "ok"

_read_pdf_text(d) ==
    IF PlumberSucceeds(d) THEN Return(JoinWith(PlumberPages(d), "\n"))
    ELSE IF PyPdfSucceeds(d) THEN Return(JoinWith(PyPdfTexts(d), "\n"))
    ELSE Raise("RuntimeError")

EmptyData == [first_name |-> "", last_name |-> "", occupation |-> "", email |-> "",
              linkedin |-> "", github |-> "", website |-> "",
              profiles |-> << >>, skills |-> << >>]

\* the record as main of app.py holds it: data["profiles"] is the dict of the
\* extractor until prompt_edit puts a list in its place
AsHeld(d) == [d EXCEPT !.profiles = [type |-> "dict", items |-> d.profiles]]

\* no command line and no input
NoCli == [pdf |-> "", no_edit |-> FALSE, output |-> "", stdin |-> << >>,
          out_before |-> [exists |-> FALSE, content |-> ""]]

\* main of app.py is not what runs
MainNotStarted ==
    /\ cli = NoCli
    /\ edited = AsHeld(EmptyData)
    /\ steps = << >>
    /\ out_file = NoCli.out_before
    /\ exit_status = None

InitRead ==
    /\ pc = "read"
    /\ pdf \in Pdfs
    /\ read_result = NotCalled
    /\ text = ""
    /\ data = EmptyData
    /\ readme = NotCalled
    /\ earlier = << >>
    /\ result = NoInfo
    /\ network = NoNetwork
    /\ MainNotStarted

ReadPdfText ==
    /\ pc = "read"
    /\ read_result' = _read_pdf_text(pdf)
    /\ pc' = IF read_result'.kind = "return" THEN "text" ELSE "failed"
    /\ text' = IF read_result'.kind = "return" THEN read_result'.value ELSE text
    /\ UNCHANGED <<pdf, data, readme, earlier, result, network>>
    /\ UNCHANGED main_vars

NextRead == ReadPdfText

SpecRead == InitRead /\ [][NextRead]_vars

(***************************************************************************)
(* Characters and str methods.                                             *)
(***************************************************************************)
LowerAlphabet == "abcdefghijklmnopqrstuvwxyz"

UpperAlphabet == "ABCDEFGHIJKLMNOPQRSTUVWXYZ"

DigitChars == "0123456789"

CharsOf(s) == { Ch(s, i) : i \in 1..Len(s) }

LowerLetters == CharsOf(LowerAlphabet)

UpperLetters == CharsOf(UpperAlphabet)

Letters == LowerLetters \cup UpperLetters

Digits == CharsOf(DigitChars)

\* \w of a str pattern, on ASCII
WordChars == Letters \cup Digits \cup {"_"}

\* \s, str.strip() and str.split() whitespace, on ASCII
Whitespace == {" ", "\t", "\n", "\r", "\f"}

LowerMap ==
    [c \in UpperLetters |->
        Ch(LowerAlphabet, CHOOSE i \in 1..Len(UpperAlphabet) : Ch(UpperAlphabet, i) = c)]

UpperMap ==
    [c \in LowerLetters |->
        Ch(UpperAlphabet, CHOOSE i \in 1..Len(LowerAlphabet) : Ch(LowerAlphabet, i) = c)]

LowerCh(c) == IF c \in UpperLetters THEN LowerMap[c] ELSE c

UpperCh(c) == IF c \in LowerLetters THEN UpperMap[c] ELSE c

\* apply a character map to every character of s[lo..hi], by halves
RECURSIVE MapRange(_, _, _, _)
MapRange(F(_), s, lo, hi) ==
    IF lo > hi THEN ""
    ELSE IF lo = hi THEN F(Ch(s, lo))
    ELSE LET mid == (lo + hi) \div 2
         IN  MapRange(F, s, lo, mid) \o MapRange(F, s, mid + 1, hi)

MapChars(F(_), s) == MapRange(F, s, 1, Len(s))

\* s.lower()
Lower(s) == MapChars(LowerCh, s)

\* s.lstrip(chars): from the first character that is not in chars
LStripChars(s, chars) ==
    LET keep == Positions(s, LAMBDA i : Ch(s, i) \notin chars)
    IN  IF Len(keep) = 0 THEN "" ELSE SubSeq(s, keep[1], Len(s))

\* s.rstrip(chars): up to the last character that is not in chars
RStripChars(s, chars) ==
    LET keep == Positions(s, LAMBDA i : Ch(s, i) \notin chars)
    IN  IF Len(keep) = 0 THEN "" ELSE SubSeq(s, 1, keep[Len(keep)])

\* s.strip()
Strip(s) == LStripChars(RStripChars(s, Whitespace), Whitespace)

\* sub == s[i : i + len(sub)]
MatchAt(s, i, sub) == SubSeq(s, i, i + Len(sub) - 1) = sub

StartsWith(s, sub) == Len(sub) <= Len(s) /\ MatchAt(s, 1, sub)

\* s.find(sub, start) with 1-based positions; 0 when sub does not occur
FindFrom(s, sub, start) ==
    LET hits == Positions(s, LAMBDA i : i >= start /\ i + Len(sub) - 1 <= Len(s)
                                          /\ MatchAt(s, i, sub))
    IN  IF Len(hits) = 0 THEN 0 ELSE hits[1]

\* sub in s
Contains(s, sub) == \E i \in 1..(Len(s) - Len(sub) + 1) : MatchAt(s, i, sub)

NonEmpty(seq) == SelectSeq(seq, LAMBDA x : x # "")

\* the pieces of s between the characters of the set seps
SplitOnChars(s, seps) == PiecesAt(s, Positions(s, LAMBDA i : Ch(s, i) \in seps))

\* s.split(): the maximal runs of non-whitespace characters
SplitWs(s) == NonEmpty(SplitOnChars(s, Whitespace))

InSeq(x, seq) == \E i \in 1..Len(seq) : seq[i] = x

\* urllib.parse.quote(s): letters, digits and _.-~/ are kept, every other
\* ASCII character becomes %XX
QuoteSafe == Letters \cup Digits \cup {"_", ".", "-", "~", "/"}

QuoteTable ==
    [c \in {" ", "!", "#", "$", "%", "&", "'", "(", ")", "*", "+", ",", ":", ";",
            "<", "=", ">", "?", "@", "[", "]", "^", "{", "|", "}", "\""} |->
        CASE c = " " -> "%20" [] c = "!" -> "%21" [] c = "#" -> "%23" [] c = "$" -> "%24"
          [] c = "%" -> "%25" [] c = "&" -> "%26" [] c = "'" -> "%27" [] c = "(" -> "%28"
          [] c = ")" -> "%29" [] c = "*" -> "%2A" [] c = "+" -> "%2B" [] c = "," -> "%2C"
          [] c = ":" -> "%3A" [] c = ";" -> "%3B" [] c = "<" -> "%3C" [] c = "=" -> "%3D"
          [] c = ">" -> "%3E" [] c = "?" -> "%3F" [] c = "@" -> "%40" [] c = "[" -> "%5B"
          [] c = "]" -> "%5D" [] c = "^" -> "%5E" [] c = "{" -> "%7B"
          [] c = "|" -> "%7C" [] c = "}" -> "%7D" [] c = "\"" -> "%22"]

QuoteCh(c) == IF c \in QuoteSafe THEN c ELSE QuoteTable[c]

Quote(s) == MapChars(QuoteCh, s)

(***************************************************************************)
(* The record (data) and its profiles mapping.  profiles is a dict: here   *)
(* the sequence of its (key, url) items in insertion order.  A field that  *)
(* is absent, None or "" reads as "" through `data.get(k, "") or ""`.      *)
(***************************************************************************)
\* the keys of host_patterns, in its order
HOST_KEYS == << "instagram", "x", "twitter", "gitlab", "tiktok", "facebook",
                "stackoverflow", "medium", "devto", "kaggle", "codepen", "leetcode",
                "hackerrank", "bitbucket", "google_scholar", "arxiv", "orcid",
                "dialnet", "scopus", "researchgate", "academia" >>

\* the keys profiles can have: those of host_patterns, then the fallback's
PROFILE_KEYS == HOST_KEYS \o << "website" >>

\* the canonical prefix of each service
Base(key) ==
    CASE key = "instagram" -> "https://instagram.com/"
      [] key = "x" -> "https://x.com/"
      [] key = "twitter" -> "https://twitter.com/"
      [] key = "tiktok" -> "https://www.tiktok.com/@"
      [] key = "facebook" -> "https://www.facebook.com/"
      [] key = "gitlab" -> "https://gitlab.com/"
      [] key = "stackoverflow" -> "https://stackoverflow.com/users/"
      [] key = "medium" -> "https://medium.com/@"
      [] key = "devto" -> "https://dev.to/"
      [] key = "kaggle" -> "https://kaggle.com/"
      [] key = "codepen" -> "https://codepen.io/"
      [] key = "leetcode" -> "https://leetcode.com/"
      [] key = "hackerrank" -> "https://www.hackerrank.com/"
      [] key = "bitbucket" -> "https://bitbucket.org/"
      [] key = "google_scholar" -> "https://scholar.google.com/citations?user="
      [] key = "arxiv" -> "https://arxiv.org/a/"
      [] key = "orcid" -> "https://orcid.org/"
      [] key = "dialnet" -> "https://dialnet.unirioja.es/servlet/articulo?codigo="
      [] key = "scopus" -> "https://www.scopus.com/authid/detail.uri?authorId="
      [] key = "researchgate" -> "https://www.researchgate.net/profile/"
      [] key = "academia" -> "https://www.academia.edu/"

HasKey(profiles, key) == \E i \in 1..Len(profiles) : profiles[i].key = key

\* profiles[key]
ProfileAt(profiles, key) ==
    profiles[CHOOSE i \in 1..Len(profiles) : profiles[i].key = key].url

\* profiles.get(key): "" stands for None
ProfileGet(profiles, key) ==
    IF HasKey(profiles, key) THEN ProfileAt(profiles, key) ELSE ""

(***************************************************************************)
(* Document renderer: generate_readme.                                     *)
(***************************************************************************)
\* md.append(header): the h1 line
HeaderLines(d) == << "<h1 align=\"center\">Hi :wave:, I'm " \o d.first_name \o " </h1>" >>

OccupationLines(d) ==
    IF d.occupation # "" THEN << "<h3 align=\"center\">" \o d.occupation \o "</h3>\n" >>
    ELSE << >>

ICONS_TiktokFirst == <<
    [channel |-> "email", src |-> "https://img.icons8.com/color/48/000000/gmail--v1.png"],
    [channel |-> "linkedin", src |-> "https://cdn.jsdelivr.net/gh/devicons/devicon/icons/linkedin/linkedin-original.svg"],
    [channel |-> "github", src |-> "https://cdn.jsdelivr.net/gh/devicons/devicon/icons/github/github-original.svg"],
    [channel |-> "instagram", src |-> "https://cdn.jsdelivr.net/gh/devicons/devicon/icons/instagram/instagram-original.svg"],
    [channel |-> "x", src |-> "https://img.icons8.com/ios-filled/50/000000/twitter--v1.png"],
    [channel |-> "twitter", src |-> "https://cdn.jsdelivr.net/gh/devicons/devicon/icons/twitter/twitter-original.svg"],
    [channel |-> "gitlab", src |-> "https://cdn.jsdelivr.net/gh/devicons/devicon/icons/gitlab/gitlab-original.svg"],
    [channel |-> "tiktok", src |-> "https://cdn.jsdelivr.net/gh/devicons/devicon/icons/tiktok/tiktok-original.svg"],
    [channel |-> "facebook", src |-> "https://cdn.jsdelivr.net/gh/devicons/devicon/icons/facebook/facebook-original.svg"],
    [channel |-> "stackoverflow", src |-> "https://cdn.jsdelivr.net/gh/devicons/devicon/icons/stackoverflow/stackoverflow-original.svg"],
    [channel |-> "medium", src |-> "https://cdn.jsdelivr.net/gh/devicons/devicon/icons/medium/medium-original.svg"],
    [channel |-> "devto", src |-> "https://cdn.jsdelivr.net/gh/devicons/devicon/icons/devto/devto-original.svg"],
    [channel |-> "kaggle", src |-> "https://cdn.jsdelivr.net/gh/devicons/devicon/icons/kaggle/kaggle-original.svg"],
    [channel |-> "codepen", src |-> "https://cdn.jsdelivr.net/gh/devicons/devicon/icons/codepen/codepen-original.svg"],
    [channel |-> "leetcode", src |-> "https://img.icons8.com/ios-filled/50/000000/leetcode.png"],
    [channel |-> "hackerrank", src |-> "https://cdn.jsdelivr.net/gh/devicons/devicon/icons/hackerrank/hackerrank-original.svg"],
    [channel |-> "bitbucket", src |-> "https://cdn.jsdelivr.net/gh/devicons/devicon/icons/bitbucket/bitbucket-original.svg"],
    [channel |-> "google_scholar", src |-> "https://img.icons8.com/ios-filled/50/000000/google-scholar.png"],
    [channel |-> "arxiv", src |-> "https://upload.wikimedia.org/wikipedia/commons/4/45/ArXiv_logo.svg"],
    [channel |-> "orcid", src |-> "https://orcid.org/sites/default/files/images/orcid_16x16.png"],
    [channel |-> "dialnet", src |-> "https://dialnet.unirioja.es/images/dialnet-logo.png"],
    [channel |-> "scopus", src |-> "https://www.elsevier.com/__data/assets/image/0007/69401/scopus-logo.png"],
    [channel |-> "researchgate", src |-> "https://cdn.jsdelivr.net/gh/devicons/devicon/icons/researchgate/researchgate-original.svg"],
    [channel |-> "academia", src |-> "https://upload.wikimedia.org/wikipedia/commons/1/12/Academia.edu_logo.png"]
    >>

\* the icons.append statements, in their order: channel and image reference
ICONS == <<
    [channel |-> "email", src |-> "https://img.icons8.com/color/48/000000/gmail--v1.png"],
    [channel |-> "linkedin", src |-> "https://cdn.jsdelivr.net/gh/devicons/devicon/icons/linkedin/linkedin-original.svg"],
    [channel |-> "github", src |-> "https://cdn.jsdelivr.net/gh/devicons/devicon/icons/github/github-original.svg"],
    [channel |-> "instagram", src |-> "https://cdn.jsdelivr.net/gh/devicons/devicon/icons/instagram/instagram-original.svg"],
    [channel |-> "x", src |-> "https://img.icons8.com/ios-filled/50/000000/twitter--v1.png"],
    [channel |-> "twitter", src |-> "https://cdn.jsdelivr.net/gh/devicons/devicon/icons/twitter/twitter-original.svg"],
    [channel |-> "gitlab", src |-> "https://cdn.jsdelivr.net/gh/devicons/devicon/icons/gitlab/gitlab-original.svg"],
    [channel |-> "facebook", src |-> "https://cdn.jsdelivr.net/gh/devicons/devicon/icons/facebook/facebook-original.svg"],
    [channel |-> "tiktok", src |-> "https://cdn.jsdelivr.net/gh/devicons/devicon/icons/tiktok/tiktok-original.svg"],
    [channel |-> "stackoverflow", src |-> "https://cdn.jsdelivr.net/gh/devicons/devicon/icons/stackoverflow/stackoverflow-original.svg"],
    [channel |-> "medium", src |-> "https://cdn.jsdelivr.net/gh/devicons/devicon/icons/medium/medium-original.svg"],
    [channel |-> "devto", src |-> "https://cdn.jsdelivr.net/gh/devicons/devicon/icons/devto/devto-original.svg"],
    [channel |-> "kaggle", src |-> "https://cdn.jsdelivr.net/gh/devicons/devicon/icons/kaggle/kaggle-original.svg"],
    [channel |-> "codepen", src |-> "https://cdn.jsdelivr.net/gh/devicons/devicon/icons/codepen/codepen-original.svg"],
    [channel |-> "leetcode", src |-> "https://img.icons8.com/ios-filled/50/000000/leetcode.png"],
    [channel |-> "hackerrank", src |-> "https://cdn.jsdelivr.net/gh/devicons/devicon/icons/hackerrank/hackerrank-original.svg"],
    [channel |-> "bitbucket", src |-> "https://cdn.jsdelivr.net/gh/devicons/devicon/icons/bitbucket/bitbucket-original.svg"],
    [channel |-> "google_scholar", src |-> "https://img.icons8.com/ios-filled/50/000000/google-scholar.png"],
    [channel |-> "arxiv", src |-> "https://upload.wikimedia.org/wikipedia/commons/4/45/ArXiv_logo.svg"],
    [channel |-> "orcid", src |-> "https://orcid.org/sites/default/files/images/orcid_16x16.png"],
    [channel |-> "dialnet", src |-> "https://dialnet.unirioja.es/images/dialnet-logo.png"],
    [channel |-> "scopus", src |-> "https://www.elsevier.com/__data/assets/image/0007/69401/scopus-logo.png"],
    [channel |-> "researchgate", src |-> "https://cdn.jsdelivr.net/gh/devicons/devicon/icons/researchgate/researchgate-original.svg"],
    [channel |-> "academia", src |-> "https://upload.wikimedia.org/wikipedia/commons/1/12/Academia.edu_logo.png"]
    >>

\* the value tested by the `if` that guards a channel's icon
ChannelUrl(d, channel) ==
    CASE channel = "email" -> d.email
      [] channel = "linkedin" -> d.linkedin
      [] channel = "github" -> d.github
      [] OTHER -> ProfileGet(d.profiles, channel)

Href(d, channel) ==
    IF channel = "email" THEN "mailto:" \o d.email ELSE ChannelUrl(d, channel)

Icon(d, ic) ==
    "<a href=\"" \o Href(d, ic.channel) \o "\"><img width=\"40px\" src=\"" \o ic.src \o "\"></a>"

\* the icons list: one entry per statement whose guard is truthy, in order
icons(d) ==
    LET shown == SelectSeq(ICONS, LAMBDA ic : ChannelUrl(d, ic.channel) # "")
    IN  [i \in 1..Len(shown) |-> Icon(d, shown[i])]

spacer == "&nbsp;&nbsp;&nbsp;&nbsp;&nbsp;"

SocialLines(d) ==
    IF Len(icons(d)) > 0
    THEN << "<!-- Social icons section -->",
            "<p align=\"center\">",
            JoinWith(icons(d), spacer),
            "</p>\n" >>
    ELSE << >>

\* re.sub(r"^https?://(www\.)?", "", website)
StripSchemeWww(u) ==
    LET afterScheme ==
            IF StartsWith(u, "https://") THEN SubSeq(u, 9, Len(u))
            ELSE IF StartsWith(u, "http://") THEN SubSeq(u, 8, Len(u))
            ELSE u
        matched == afterScheme # u
    IN  IF matched /\ StartsWith(afterScheme, "www.")
        THEN SubSeq(afterScheme, 5, Len(afterScheme))
        ELSE afterScheme

display_domain(d) == RStripChars(StripSchemeWww(d.website), {"/"})

WebsiteBadge(d) ==
    "https://img.shields.io/badge/" \o Quote("Personal Website") \o "-"
        \o Quote(display_domain(d)) \o "-2b9348?logo=google-chrome&logoColor=white"

WebsiteLines(d) ==
    IF d.website # ""
    THEN << "",
            "<!-- Personal website highlight -->",
            "<p align=\"center\">",
            "  <a href=\"" \o d.website \o "\"><img src=\"" \o WebsiteBadge(d)
                \o "\" alt=\"Visit website\" /></a>",
            "</p>\n" >>
    ELSE << >>

Last(seq) == seq[Len(seq)]

\* the local github_username is assigned only under `if github:`; otherwise
\* the name stays unbound
Unbound == [bound |-> FALSE, value |-> ""]

github_username(d) ==
    IF d.github # ""
    THEN [bound |-> TRUE, value |-> Last(SplitOn(RStripChars(d.github, {"/"}), "/"))]
    ELSE Unbound

LANG_BADGES == <<
    [key |-> "python", label |-> "Python",
     badge |-> "https://img.shields.io/badge/Python-14354C.svg?logo=python&logoColor=white"],
    [key |-> "java", label |-> "Java",
     badge |-> "https://custom-icon-badges.demolab.com/badge/Java-007396.svg?logo=java&logoColor=white"],
    [key |-> "c", label |-> "C",
     badge |-> "https://img.shields.io/badge/C-03599C.svg?logo=c&logoColor=white"],
    [key |-> "c++", label |-> "C++",
     badge |-> "https://img.shields.io/badge/C++-00599C.svg?logo=c%2B%2B&logoColor=white"],
    [key |-> "c#", label |-> "C#",
     badge |-> "https://img.shields.io/badge/C%23-239120.svg?logo=c-sharp&logoColor=white"],
    [key |-> "go", label |-> "Go",
     badge |-> "https://img.shields.io/badge/Go-00ADD8.svg?logo=go&logoColor=white"],
    [key |-> "rust", label |-> "Rust",
     badge |-> "https://img.shields.io/badge/Rust-000000.svg?logo=rust&logoColor=white"],
    [key |-> "swift", label |-> "Swift",
     badge |-> "https://img.shields.io/badge/Swift-FA7343.svg?logo=swift&logoColor=white"],
    [key |-> "kotlin", label |-> "Kotlin",
     badge |-> "https://img.shields.io/badge/Kotlin-0095D5.svg?logo=kotlin&logoColor=white"],
    [key |-> "ruby", label |-> "Ruby",
     badge |-> "https://img.shields.io/badge/Ruby-CC342D.svg?logo=ruby&logoColor=white"],
    [key |-> "php", label |-> "PHP",
     badge |-> "https://img.shields.io/badge/PHP-777BB4.svg?logo=php&logoColor=white"],
    [key |-> "typescript", label |-> "TypeScript",
     badge |-> "https://img.shields.io/badge/TypeScript-3178C6.svg?logo=typescript&logoColor=white"],
    [key |-> "javascript", label |-> "JavaScript",
     badge |-> "https://img.shields.io/badge/JavaScript-F7DF1E.svg?logo=javascript&logoColor=black"],
    [key |-> "dart", label |-> "Dart",
     badge |-> "https://img.shields.io/badge/Dart-0175C2.svg?logo=dart&logoColor=white"],
    [key |-> "scala", label |-> "Scala",
     badge |-> "https://img.shields.io/badge/Scala-DC322F.svg?logo=scala&logoColor=white"],
    [key |-> "groovy", label |-> "Groovy",
     badge |-> "https://img.shields.io/badge/Groovy-E69F56.svg?logo=groovy&logoColor=white"],
    [key |-> "elixir", label |-> "Elixir",
     badge |-> "https://img.shields.io/badge/Elixir-4B275F.svg?logo=elixir&logoColor=white"],
    [key |-> "haskell", label |-> "Haskell",
     badge |-> "https://img.shields.io/badge/Haskell-5D4F85.svg?logo=haskell&logoColor=white"],
    [key |-> "julia", label |-> "Julia",
     badge |-> "https://img.shields.io/badge/Julia-9558B2.svg?logo=julia&logoColor=white"],
    [key |-> "r", label |-> "R",
     badge |-> "https://img.shields.io/badge/R-276DC3.svg?logo=r&logoColor=white"],
    [key |-> "perl", label |-> "Perl",
     badge |-> "https://img.shields.io/badge/Perl-39457E.svg?logo=perl&logoColor=white"],
    [key |-> "fortran", label |-> "Fortran",
     badge |-> "https://img.shields.io/badge/Fortran-4D41B1.svg?logo=fortran&logoColor=white"],
    [key |-> "matlab", label |-> "MATLAB",
     badge |-> "https://img.shields.io/badge/MATLAB-0076A8.svg?logo=matlab&logoColor=white"],
    [key |-> "clojure", label |-> "Clojure",
     badge |-> "https://img.shields.io/badge/Clojure-5881D8.svg?logo=clojure&logoColor=white"],
    [key |-> "bash", label |-> "Bash",
     badge |-> "https://img.shields.io/badge/Bash-121011.svg?logo=gnu-bash&logoColor=white"],
    [key |-> "shell", label |-> "Shell",
     badge |-> "https://img.shields.io/badge/Shell-121011.svg?logo=gnu-bash&logoColor=white"],
    [key |-> "powershell", label |-> "PowerShell",
     badge |-> "https://img.shields.io/badge/PowerShell-012456.svg?logo=powershell&logoColor=white"],
    [key |-> "sql", label |-> "SQL",
     badge |-> "https://img.shields.io/badge/SQL-4479A1.svg?logo=postgresql&logoColor=white"],
    [key |-> "plsql", label |-> "PL/SQL",
     badge |-> "https://img.shields.io/badge/PLSQL-F80000.svg?logo=oracle&logoColor=white"],
    [key |-> "jpql", label |-> "JPQL",
     badge |-> "https://img.shields.io/badge/JPQL-FF2D20.svg?logo=java&logoColor=white"],
    [key |-> "graphql", label |-> "GraphQL",
     badge |-> "https://img.shields.io/badge/GraphQL-E10098.svg?logo=graphql&logoColor=white"],
    [key |-> "sparql", label |-> "SPARQL",
     badge |-> "https://img.shields.io/badge/SPARQL-005A9C.svg?logo=w3c&logoColor=white"],
    [key |-> "html", label |-> "HTML",
     badge |-> "https://img.shields.io/badge/HTML-E34F26.svg?logo=html5&logoColor=white"],
    [key |-> "css", label |-> "CSS",
     badge |-> "https://img.shields.io/badge/CSS-1572B6.svg?logo=css3&logoColor=white"],
    [key |-> "xml", label |-> "XML",
     badge |-> "https://img.shields.io/badge/XML-0060AC.svg?logo=xml&logoColor=white"],
    [key |-> "json", label |-> "JSON",
     badge |-> "https://img.shields.io/badge/JSON-000000.svg?logo=json&logoColor=white"],
    [key |-> "yaml", label |-> "YAML",
     badge |-> "https://img.shields.io/badge/YAML-000000.svg?logo=yaml&logoColor=white"],
    [key |-> "toml", label |-> "TOML",
     badge |-> "https://img.shields.io/badge/TOML-9C4121.svg?logo=toml&logoColor=white"],
    [key |-> "ini", label |-> "INI",
     badge |-> "https://img.shields.io/badge/INI-5B5B5B.svg?logo=windows-terminal&logoColor=white"],
    [key |-> "lua", label |-> "Lua",
     badge |-> "https://img.shields.io/badge/Lua-2C2D72.svg?logo=lua&logoColor=white"],
    [key |-> "latex", label |-> "LaTeX",
     badge |-> "https://img.shields.io/badge/LaTeX-008080.svg?logo=latex&logoColor=white"],
    [key |-> "markdown", label |-> "Markdown",
     badge |-> "https://img.shields.io/badge/Markdown-000000.svg?logo=markdown&logoColor=white"],
    [key |-> "rst", label |-> "reStructuredText",
     badge |-> "https://img.shields.io/badge/reStructuredText-3A6EA5.svg?logo=python&logoColor=white"],
    [key |-> "verilog", label |-> "Verilog",
     badge |-> "https://img.shields.io/badge/Verilog-4D4D4D.svg?logo=verilog&logoColor=white"],
    [key |-> "vhdl", label |-> "VHDL",
     badge |-> "https://img.shields.io/badge/VHDL-0073A6.svg?logo=vhdl&logoColor=white"],
    [key |-> "prolog", label |-> "Prolog",
     badge |-> "https://img.shields.io/badge/Prolog-742F9E.svg?logo=prolog&logoColor=white"],
    [key |-> "ada", label |-> "Ada",
     badge |-> "https://img.shields.io/badge/Ada-002B36.svg?logo=ada&logoColor=white"],
    [key |-> "lisp", label |-> "Lisp",
     badge |-> "https://img.shields.io/badge/Lisp-3FB68B.svg?logo=lisp&logoColor=white"],
    [key |-> "ocaml", label |-> "OCaml",
     badge |-> "https://img.shields.io/badge/OCaml-EC6813.svg?logo=ocaml&logoColor=white"]
    >>

FRAMEWORK_BADGES == <<
    [key |-> "react", label |-> "React",
     badge |-> "https://img.shields.io/badge/React-20232a.svg?logo=react&logoColor=%2361DAFB"],
    [key |-> "angular", label |-> "Angular",
     badge |-> "https://img.shields.io/badge/Angular-DD0031.svg?logo=angular&logoColor=white"],
    [key |-> "vue", label |-> "Vue.js",
     badge |-> "https://img.shields.io/badge/Vue.js-4FC08D.svg?logo=vue.js&logoColor=white"],
    [key |-> "nextjs", label |-> "Next.js",
     badge |-> "https://img.shields.io/badge/Next.js-000000.svg?logo=next.js&logoColor=white"],
    [key |-> "svelte", label |-> "Svelte",
     badge |-> "https://img.shields.io/badge/Svelte-FF3E00.svg?logo=svelte&logoColor=white"],
    [key |-> "bootstrap", label |-> "Bootstrap",
     badge |-> "https://img.shields.io/badge/Bootstrap-7952B3.svg?logo=bootstrap&logoColor=white"],
    [key |-> "tailwind", label |-> "Tailwind CSS",
     badge |-> "https://img.shields.io/badge/TailwindCSS-06B6D4.svg?logo=tailwindcss&logoColor=white"],
    [key |-> "spring", label |-> "Spring",
     badge |-> "https://img.shields.io/badge/Spring-6DB33F.svg?logo=spring&logoColor=white"],
    [key |-> "django", label |-> "Django",
     badge |-> "https://img.shields.io/badge/Django-092E20.svg?logo=django&logoColor=white"],
    [key |-> "flask", label |-> "Flask",
     badge |-> "https://img.shields.io/badge/Flask-000000.svg?logo=flask&logoColor=white"],
    [key |-> "fastapi", label |-> "FastAPI",
     badge |-> "https://img.shields.io/badge/FastAPI-009688.svg?logo=fastapi&logoColor=white"],
    [key |-> "express", label |-> "Express",
     badge |-> "https://img.shields.io/badge/Express.js-000000.svg?logo=express&logoColor=white"],
    [key |-> "laravel", label |-> "Laravel",
     badge |-> "https://img.shields.io/badge/Laravel-FF2D20.svg?logo=laravel&logoColor=white"],
    [key |-> "nodejs", label |-> "Node.js",
     badge |-> "https://img.shields.io/badge/Node.js-339933.svg?logo=node.js&logoColor=white"],
    [key |-> "dotnet", label |-> ".NET",
     badge |-> "https://img.shields.io/badge/.NET-512BD4.svg?logo=dotnet&logoColor=white"],
    [key |-> "ruby_on_rails", label |-> "Ruby on Rails",
     badge |-> "https://img.shields.io/badge/Rails-CC0000.svg?logo=rubyonrails&logoColor=white"],
    [key |-> "numpy", label |-> "NumPy",
     badge |-> "https://img.shields.io/badge/Numpy-013243.svg?logo=numpy&logoColor=white"],
    [key |-> "pandas", label |-> "Pandas",
     badge |-> "https://img.shields.io/badge/Pandas-150458.svg?logo=pandas&logoColor=white"],
    [key |-> "matplotlib", label |-> "Matplotlib",
     badge |-> "https://img.shields.io/badge/Matplotlib-11557C.svg?logo=python&logoColor=white"],
    [key |-> "scikit_learn", label |-> "scikit-learn",
     badge |-> "https://img.shields.io/badge/scikit--learn-F7931E.svg?logo=scikit-learn&logoColor=white"],
    [key |-> "tensorflow", label |-> "TensorFlow",
     badge |-> "https://img.shields.io/badge/TensorFlow-FF6F00.svg?logo=tensorflow&logoColor=white"],
    [key |-> "pytorch", label |-> "PyTorch",
     badge |-> "https://img.shields.io/badge/PyTorch-EE4C2C.svg?logo=pytorch&logoColor=white"],
    [key |-> "keras", label |-> "Keras",
     badge |-> "https://img.shields.io/badge/Keras-D00000.svg?logo=keras&logoColor=white"],
    [key |-> "opencv", label |-> "OpenCV",
     badge |-> "https://img.shields.io/badge/OpenCV-5C3EE8.svg?logo=opencv&logoColor=white"],
    [key |-> "xgboost", label |-> "XGBoost",
     badge |-> "https://img.shields.io/badge/XGBoost-AA0000.svg?logo=xgboost&logoColor=white"],
    [key |-> "docker", label |-> "Docker",
     badge |-> "https://img.shields.io/badge/Docker-2496ED.svg?logo=docker&logoColor=white"],
    [key |-> "kubernetes", label |-> "Kubernetes",
     badge |-> "https://img.shields.io/badge/Kubernetes-326CE5.svg?logo=kubernetes&logoColor=white"],
    [key |-> "jenkins", label |-> "Jenkins",
     badge |-> "https://img.shields.io/badge/Jenkins-D24939.svg?logo=jenkins&logoColor=white"],
    [key |-> "ansible", label |-> "Ansible",
     badge |-> "https://img.shields.io/badge/Ansible-EE0000.svg?logo=ansible&logoColor=white"],
    [key |-> "terraform", label |-> "Terraform",
     badge |-> "https://img.shields.io/badge/Terraform-623CE4.svg?logo=terraform&logoColor=white"],
    [key |-> "pytest", label |-> "PyTest",
     badge |-> "https://img.shields.io/badge/Pytest-0A9EDC.svg?logo=pytest&logoColor=white"],
    [key |-> "junit", label |-> "JUnit",
     badge |-> "https://custom-icon-badges.demolab.com/badge/JUnit-25A162.svg?logo=check-circle&logoColor=white"],
    [key |-> "selenium", label |-> "Selenium",
     badge |-> "https://img.shields.io/badge/Selenium-43B02A.svg?logo=selenium&logoColor=white"],
    [key |-> "cypress", label |-> "Cypress",
     badge |-> "https://img.shields.io/badge/Cypress-17202C.svg?logo=cypress&logoColor=white"],
    [key |-> "wordpress", label |-> "Wordpress",
     badge |-> "https://img.shields.io/badge/Wordpress-21759B.svg?logo=wordpress&logoColor=white"],
    [key |-> "drupal", label |-> "Drupal",
     badge |-> "https://img.shields.io/badge/Drupal-0678BE.svg?logo=drupal&logoColor=white"],
    [key |-> "joomla", label |-> "Joomla",
     badge |-> "https://img.shields.io/badge/Joomla-FC8F30.svg?logo=joomla&logoColor=white"],
    [key |-> "flutter", label |-> "Flutter",
     badge |-> "https://img.shields.io/badge/Flutter-02569B.svg?logo=flutter&logoColor=white"],
    [key |-> "react_native", label |-> "React Native",
     badge |-> "https://img.shields.io/badge/React_Native-20232a.svg?logo=react&logoColor=%2361DAFB"],
    [key |-> "android", label |-> "Android",
     badge |-> "https://img.shields.io/badge/Android-3DDC84.svg?logo=android&logoColor=white"]
    >>

DB_BADGES == <<
    [key |-> "oracle", label |-> "Oracle",
     badge |-> "https://img.shields.io/badge/Oracle-F80000.svg?logo=oracle&logoColor=white"],
    [key |-> "postgres", label |-> "Postgres",
     badge |-> "https://img.shields.io/badge/Postgres-316192.svg?logo=postgresql&logoColor=white"],
    [key |-> "postgresql", label |-> "PostgreSQL",
     badge |-> "https://img.shields.io/badge/PostgreSQL-316192.svg?logo=postgresql&logoColor=white"],
    [key |-> "mysql", label |-> "MySQL",
     badge |-> "https://img.shields.io/badge/MySQL-4479A1.svg?logo=mysql&logoColor=white"],
    [key |-> "sqlite", label |-> "SQLite",
     badge |-> "https://img.shields.io/badge/SQLite-003B57.svg?logo=sqlite&logoColor=white"],
    [key |-> "mariadb", label |-> "MariaDB",
     badge |-> "https://img.shields.io/badge/MariaDB-003545.svg?logo=mariadb&logoColor=white"],
    [key |-> "mssql", label |-> "MS SQL Server",
     badge |-> "https://img.shields.io/badge/MS_SQL_Server-CC2927.svg?logo=microsoft-sql-server&logoColor=white"],
    [key |-> "firebird", label |-> "Firebird",
     badge |-> "https://img.shields.io/badge/Firebird-E10000.svg?logo=firebird&logoColor=white"],
    [key |-> "db2", label |-> "IBM Db2",
     badge |-> "https://img.shields.io/badge/IBM_Db2-052FAD.svg?logo=ibm&logoColor=white"],
    [key |-> "mongodb", label |-> "MongoDB",
     badge |-> "https://img.shields.io/badge/MongoDB-47A248.svg?logo=mongodb&logoColor=white"],
    [key |-> "cassandra", label |-> "Cassandra",
     badge |-> "https://img.shields.io/badge/Apache_Cassandra-1287B1.svg?logo=apache-cassandra&logoColor=white"],
    [key |-> "couchdb", label |-> "CouchDB",
     badge |-> "https://img.shields.io/badge/CouchDB-E42528.svg?logo=apache-couchdb&logoColor=white"],
    [key |-> "dynamodb", label |-> "DynamoDB",
     badge |-> "https://img.shields.io/badge/DynamoDB-4053D6.svg?logo=amazon-dynamodb&logoColor=white"],
    [key |-> "redis", label |-> "Redis",
     badge |-> "https://img.shields.io/badge/Redis-DC382D.svg?logo=redis&logoColor=white"],
    [key |-> "neo4j", label |-> "Neo4j",
     badge |-> "https://img.shields.io/badge/Neo4j-008CC1.svg?logo=neo4j&logoColor=white"],
    [key |-> "arangodb", label |-> "ArangoDB",
     badge |-> "https://img.shields.io/badge/ArangoDB-DDE072.svg?logo=arangodb&logoColor=black"],
    [key |-> "couchbase", label |-> "Couchbase",
     badge |-> "https://img.shields.io/badge/Couchbase-EA2328.svg?logo=couchbase&logoColor=white"],
    [key |-> "elasticsearch", label |-> "Elasticsearch",
     badge |-> "https://img.shields.io/badge/Elasticsearch-005571.svg?logo=elasticsearch&logoColor=white"],
    [key |-> "supabase", label |-> "Supabase",
     badge |-> "https://img.shields.io/badge/Supabase-3ECF8E.svg?logo=supabase&logoColor=white"],
    [key |-> "firebase", label |-> "Firebase",
     badge |-> "https://img.shields.io/badge/Firebase-FFCA28.svg?logo=firebase&logoColor=black"],
    [key |-> "aws_rds", label |-> "AWS RDS",
     badge |-> "https://img.shields.io/badge/AWS_RDS-527FFF.svg?logo=amazon-aws&logoColor=white"],
    [key |-> "aws_aurora", label |-> "AWS Aurora",
     badge |-> "https://img.shields.io/badge/AWS_Aurora-FF9900.svg?logo=amazon-aws&logoColor=white"],
    [key |-> "google_bigquery", label |-> "Google BigQuery",
     badge |-> "https://img.shields.io/badge/BigQuery-669DF6.svg?logo=google-cloud&logoColor=white"],
    [key |-> "azure_sql", label |-> "Azure SQL",
     badge |-> "https://img.shields.io/badge/Azure_SQL-0078D4.svg?logo=microsoft-azure&logoColor=white"],
    [key |-> "snowflake", label |-> "Snowflake",
     badge |-> "https://img.shields.io/badge/Snowflake-29B5E8.svg?logo=snowflake&logoColor=white"],
    [key |-> "redshift", label |-> "Amazon Redshift",
     badge |-> "https://img.shields.io/badge/Redshift-8C4FFF.svg?logo=amazon-redshift&logoColor=white"],
    [key |-> "bigquery", label |-> "BigQuery",
     badge |-> "https://img.shields.io/badge/BigQuery-4285F4.svg?logo=google-cloud&logoColor=white"],
    [key |-> "clickhouse", label |-> "ClickHouse",
     badge |-> "https://img.shields.io/badge/ClickHouse-FFCC01.svg?logo=clickhouse&logoColor=black"],
    [key |-> "duckdb", label |-> "DuckDB",
     badge |-> "https://img.shields.io/badge/DuckDB-FFF000.svg?logo=duckdb&logoColor=black"],
    [key |-> "influxdb", label |-> "InfluxDB",
     badge |-> "https://img.shields.io/badge/InfluxDB-22ADF6.svg?logo=influxdb&logoColor=white"],
    [key |-> "timescaledb", label |-> "TimescaleDB",
     badge |-> "https://img.shields.io/badge/TimescaleDB-FDB515.svg?logo=timescaledb&logoColor=black"],
    [key |-> "prometheus", label |-> "Prometheus",
     badge |-> "https://img.shields.io/badge/Prometheus-E6522C.svg?logo=prometheus&logoColor=white"],
    [key |-> "janusgraph", label |-> "JanusGraph",
     badge |-> "https://img.shields.io/badge/JanusGraph-1A1A1A.svg?logo=apache&logoColor=white"],
    [key |-> "solr", label |-> "Apache Solr",
     badge |-> "https://img.shields.io/badge/Solr-D9411E.svg?logo=apache-solr&logoColor=white"],
    [key |-> "realm", label |-> "Realm",
     badge |-> "https://img.shields.io/badge/Realm-39477F.svg?logo=realm&logoColor=white"],
    [key |-> "leveldb", label |-> "LevelDB",
     badge |-> "https://img.shields.io/badge/LevelDB-4479A1.svg?logo=google&logoColor=white"],
    [key |-> "rocksdb", label |-> "RocksDB",
     badge |-> "https://img.shields.io/badge/RocksDB-2A5B84.svg?logo=rocksdb&logoColor=white"]
    >>

DEVELOPMENT_TOOLS_BADGES == <<
    [key |-> "git", label |-> "Git",
     badge |-> "https://img.shields.io/badge/Git-F05032.svg?logo=git&logoColor=white"],
    [key |-> "github", label |-> "GitHub",
     badge |-> "https://img.shields.io/badge/GitHub-181717.svg?logo=github&logoColor=white"],
    [key |-> "github_desktop", label |-> "GitHub Desktop",
     badge |-> "https://img.shields.io/badge/GitHub_Desktop-8034A9.svg?logo=github&logoColor=white"],
    [key |-> "gitlab", label |-> "GitLab",
     badge |-> "https://img.shields.io/badge/GitLab-FCA121.svg?logo=gitlab&logoColor=white"],
    [key |-> "bitbucket", label |-> "Bitbucket",
     badge |-> "https://img.shields.io/badge/Bitbucket-205081.svg?logo=bitbucket&logoColor=white"],
    [key |-> "visual_studio_code", label |-> "Visual Studio Code",
     badge |-> "https://img.shields.io/badge/Visual%20Studio%20Code-0078d7.svg?logo=visual-studio-code&logoColor=white"],
    [key |-> "vscode", label |-> "VS Code",
     badge |-> "https://img.shields.io/badge/VS_Code-007ACC.svg?logo=visual-studio-code&logoColor=white"],
    [key |-> "visual_studio", label |-> "Visual Studio",
     badge |-> "https://img.shields.io/badge/Visual_Studio-5C2D91.svg?logo=visual-studio&logoColor=white"],
    [key |-> "intellij_idea", label |-> "IntelliJ IDEA",
     badge |-> "https://img.shields.io/badge/IntelliJ_IDEA-000000.svg?logo=intellij-idea&logoColor=white"],
    [key |-> "pycharm", label |-> "PyCharm",
     badge |-> "https://img.shields.io/badge/PyCharm-000000.svg?logo=pycharm&logoColor=white"],
    [key |-> "eclipse", label |-> "Eclipse",
     badge |-> "https://img.shields.io/badge/Eclipse-2C2255.svg?logo=eclipse&logoColor=white"],
    [key |-> "atom", label |-> "Atom",
     badge |-> "https://img.shields.io/badge/Atom-66595C.svg?logo=atom&logoColor=white"],
    [key |-> "sublime_text", label |-> "Sublime Text",
     badge |-> "https://img.shields.io/badge/Sublime_Text-FF9800.svg?logo=sublime-text&logoColor=white"],
    [key |-> "jupyter", label |-> "Jupyter",
     badge |-> "https://img.shields.io/badge/Jupyter-F37626.svg?logo=jupyter&logoColor=white"],
    [key |-> "mathematica", label |-> "Mathematica",
     badge |-> "https://img.shields.io/badge/Mathematica-DD1100.svg?logo=wolfram-mathematica&logoColor=white"],
    [key |-> "matlab", label |-> "MATLAB",
     badge |-> "https://img.shields.io/badge/MATLAB-0076A8.svg?logo=mathworks&logoColor=white"],
    [key |-> "tableau", label |-> "Tableau",
     badge |-> "https://img.shields.io/badge/Tableau-E97627.svg?logo=tableau&logoColor=white"],
    [key |-> "powerbi", label |-> "Power BI",
     badge |-> "https://img.shields.io/badge/Power_BI-F2C811.svg?logo=power-bi&logoColor=black"],
    [key |-> "more_optimal", label |-> "More Optimal",
     badge |-> "https://img.shields.io/badge/More%20Optimal-1E1E1E.svg?logo=python&logoColor=white"],
    [key |-> "rundeck", label |-> "Rundeck",
     badge |-> "https://img.shields.io/badge/Rundeck-E71E1E.svg?logo=rundeck&logoColor=white"],
    [key |-> "jenkins", label |-> "Jenkins",
     badge |-> "https://img.shields.io/badge/Jenkins-D24939.svg?logo=jenkins&logoColor=white"],
    [key |-> "docker", label |-> "Docker",
     badge |-> "https://img.shields.io/badge/Docker-2496ED.svg?logo=docker&logoColor=white"],
    [key |-> "kubernetes", label |-> "Kubernetes",
     badge |-> "https://img.shields.io/badge/Kubernetes-326CE5.svg?logo=kubernetes&logoColor=white"],
    [key |-> "wireshark", label |-> "Wireshark",
     badge |-> "https://img.shields.io/badge/Wireshark-1679A7.svg?logo=wireshark&logoColor=white"],
    [key |-> "xss", label |-> "XSS",
     badge |-> "https://img.shields.io/badge/XSS-2B2B2B.svg?logo=hackthebox&logoColor=green"],
    [key |-> "cryptography", label |-> "Cryptography",
     badge |-> "https://img.shields.io/badge/Cryptography-282C34.svg?logo=letsencrypt&logoColor=white"],
    [key |-> "burp_suite", label |-> "Burp Suite",
     badge |-> "https://img.shields.io/badge/Burp_Suite-FF6633.svg?logo=burp-suite&logoColor=white"],
    [key |-> "nmap", label |-> "Nmap",
     badge |-> "https://img.shields.io/badge/Nmap-4682B4.svg?logo=gnu-bash&logoColor=white"],
    [key |-> "metasploit", label |-> "Metasploit",
     badge |-> "https://img.shields.io/badge/Metasploit-2B2B2B.svg?logo=metasploit&logoColor=blue"],
    [key |-> "postman", label |-> "Postman",
     badge |-> "https://img.shields.io/badge/Postman-FF6C37.svg?logo=postman&logoColor=white"],
    [key |-> "swagger", label |-> "Swagger",
     badge |-> "https://img.shields.io/badge/Swagger-85EA2D.svg?logo=swagger&logoColor=black"],
    [key |-> "adobe", label |-> "Adobe",
     badge |-> "https://img.shields.io/badge/Adobe-FF0000.svg?logo=adobe&logoColor=white"],
    [key |-> "figma", label |-> "Figma",
     badge |-> "https://img.shields.io/badge/Figma-F24E1E.svg?logo=figma&logoColor=white"],
    [key |-> "canva", label |-> "Canva",
     badge |-> "https://img.shields.io/badge/Canva-00C4CC.svg?logo=canva&logoColor=white"],
    [key |-> "microsoft_office", label |-> "Microsoft Office",
     badge |-> "https://img.shields.io/badge/Microsoft_Office-D83B01.svg?logo=microsoft-office&logoColor=white"],
    [key |-> "word", label |-> "Microsoft Word",
     badge |-> "https://img.shields.io/badge/Word-2B579A.svg?logo=microsoft-word&logoColor=white"],
    [key |-> "excel", label |-> "Microsoft Excel",
     badge |-> "https://img.shields.io/badge/Excel-217346.svg?logo=microsoft-excel&logoColor=white"],
    [key |-> "powerpoint", label |-> "Microsoft PowerPoint",
     badge |-> "https://img.shields.io/badge/PowerPoint-B7472A.svg?logo=microsoft-powerpoint&logoColor=white"],
    [key |-> "outlook", label |-> "Microsoft Outlook",
     badge |-> "https://img.shields.io/badge/Outlook-0078D4.svg?logo=microsoft-outlook&logoColor=white"],
    [key |-> "access", label |-> "Microsoft Access",
     badge |-> "https://img.shields.io/badge/Access-A4373A.svg?logo=microsoft-access&logoColor=white"],
    [key |-> "onenote", label |-> "OneNote",
     badge |-> "https://img.shields.io/badge/OneNote-7719AA.svg?logo=microsoft-onenote&logoColor=white"],
    [key |-> "teams", label |-> "Microsoft Teams",
     badge |-> "https://img.shields.io/badge/Teams-6264A7.svg?logo=microsoft-teams&logoColor=white"],
    [key |-> "sharepoint", label |-> "SharePoint",
     badge |-> "https://img.shields.io/badge/SharePoint-0078D4.svg?logo=microsoft-sharepoint&logoColor=white"],
    [key |-> "onedrive", label |-> "OneDrive",
     badge |-> "https://img.shields.io/badge/OneDrive-0078D4.svg?logo=microsoft-onedrive&logoColor=white"]
    >>

\* norm(s): lower, every character outside [\w+\-#.] becomes a space, strip
NormCh(c) == IF c \in WordChars \cup {"+", "-", "#", "."} THEN c ELSE " "

norm(s) == Strip(MapChars(NormCh, Lower(s)))

\* the same without the substring test
KeyMatches_WholeTokens(key, s_norm) ==
    \/ InSeq(key, SplitWs(s_norm))
    \/ key = s_norm

\* key in s_norm.split() or key == s_norm or key in s_norm
KeyMatches(key, s_norm) ==
    \/ InSeq(key, SplitWs(s_norm))
    \/ key = s_norm
    \/ Contains(s_norm, key)

\* one `for key in TABLE` loop: the (label, badge) pairs of the matching keys,
\* in table order
MatchedBadges(table, s_norm) ==
    LET hit == SelectSeq(table, LAMBDA r : KeyMatches(r.key, s_norm))
    IN  [i \in 1..Len(hit) |-> << hit[i].label, hit[i].badge >>]

\* the `for s in skills_list` loop: the matches of skills[lo..hi], in order
RECURSIVE MatchedRange(_, _, _, _)
MatchedRange(table, skills, lo, hi) ==
    IF lo > hi THEN << >>
    ELSE IF lo = hi THEN MatchedBadges(table, norm(skills[lo]))
    ELSE LET mid == (lo + hi) \div 2
         IN  MatchedRange(table, skills, lo, mid) \o MatchedRange(table, skills, mid + 1, hi)

\* `if X not in found: found.append(X)`: each pair is kept where it first occurs
FirstOccurrences(seq) ==
    LET keep == SelectSeq([i \in 1..Len(seq) |-> i],
                          LAMBDA i : \A j \in 1..(i - 1) : seq[j] # seq[i])
    IN  [k \in 1..Len(keep) |-> seq[keep[k]]]

\* every match appended, the `not in` test left out
Classify_KeepsRepeats(table, skills) == MatchedRange(table, skills, 1, Len(skills))

Classify(table, skills) == FirstOccurrences(MatchedRange(table, skills, 1, Len(skills)))

langs_found(d) == Classify(LANG_BADGES, d.skills)

frameworks_found(d) == Classify(FRAMEWORK_BADGES, d.skills)

dbs_found(d) == Classify(DB_BADGES, d.skills)

devtools_found(d) == Classify(DEVELOPMENT_TOOLS_BADGES, d.skills)

SkillsOpenLines == << "<details open>", "<summary><h2>:hammer_and_wrench: Skills</h2></summary>" >>

\* one language badge; a truthy github_username wraps it in a search link
LangBadgeLine(user, b) ==
    IF user # ""
    THEN "      <a href=\"https://github.com/search?q=user%3A" \o user \o "+language%3A"
             \o Quote(b[1]) \o "\"><img alt=\"" \o b[1] \o "\" src=\"" \o b[2] \o "\"></a>"
    ELSE "      <img alt=\"" \o b[1] \o "\" src=\"" \o b[2] \o "\">"

LangLines(d) ==
    LET found == langs_found(d) IN
    IF Len(found) > 0
    THEN << "  <h3>:man_technologist: Programming and Markup Languages</h3>", "  <p>", "      <p>" >>
         \o [i \in 1..Len(found) |-> LangBadgeLine(github_username(d).value, found[i])]
         \o << "  </p>", "  </p>" >>
    ELSE << >>

BadgeLine(b) == "      <img alt=\"" \o b[1] \o "\" src=\"" \o b[2] \o "\">"

CategoryLines(title, found) ==
    IF Len(found) > 0
    THEN << "", title, "  <p>" >> \o [i \in 1..Len(found) |-> BadgeLine(found[i])] \o << "  </p>" >>
    ELSE << >>

SkillsLines(d) ==
    SkillsOpenLines
    \o LangLines(d)
    \o CategoryLines("  <h3>:toolbox: Frameworks and Libraries</h3>", frameworks_found(d))
    \o CategoryLines("  <h3>:file_cabinet: Databases</h3>", dbs_found(d))
    \o CategoryLines("  <h3>:bulb: Development Tools and Others</h3>", devtools_found(d))
    \o << "</details>\n" >>

ProjectsLines(d) ==
    IF d.github # ""
    THEN << "<details open>",
            "<summary><h2>:blue_book: GitHub Projects</h2></summary>",
            "<p>",
            "  <a href=\"" \o d.github \o "?tab=repositories&sort=stargazers\">",
            "  </a>",
            "</p>",
            "</details>\n" >>
    ELSE << >>

StatsLines(d) ==
    LET user == github_username(d).value IN
    IF user # ""
    THEN << "<details open>",
            "<summary><h2>:bar_chart: GitHub Stats</h2></summary>",
            "<p align=\"center\">",
            "    <img align=\"center\" height=200 alt=\"" \o user
                \o "'s Github Stats\" src=\"https://github-readme-stats.vercel.app/api/?username="
                \o user \o "\" />",
            "&nbsp;",
            "    <img align=\"center\" height=200 alt=\"" \o user
                \o "'s Top Languages\" src=\"https://github-readme-stats.vercel.app/api/top-langs/?username="
                \o user \o "&langs_count=8&layout=compact\" />",
            "</p>",
            "</details>\n" >>
    ELSE << >>

FooterLines ==
    << "---\n",
       "[![Generated with cv-to-github-readme](https://img.shields.io/badge/Generated%20with-cv--to--github--readme-blue?logo=github)](https://github.com/pablofazio02/cv-to-github-readme)" >>

md_StatsBeforeProjects(d) ==
    HeaderLines(d) \o OccupationLines(d) \o SocialLines(d) \o WebsiteLines(d)
    \o SkillsLines(d) \o StatsLines(d) \o ProjectsLines(d) \o FooterLines

\* the md list at the return statement
md(d) ==
    HeaderLines(d) \o OccupationLines(d) \o SocialLines(d) \o WebsiteLines(d)
    \o SkillsLines(d) \o ProjectsLines(d) \o StatsLines(d) \o FooterLines

\* github_username is read at line 643 when a language was found and at line
\* 691 on every call; reading it unbound raises UnboundLocalError
ReadsUnboundLocal(d) == ~github_username(d).bound

generate_readme(d) ==
    IF ReadsUnboundLocal(d) THEN Raise("UnboundLocalError")
    ELSE Return(JoinWith(md(d), "\n"))

\* generate_readme of readme_generator.py: its first statement reads the name
\* first_name, which the module never binds
readme_generator_generate_readme(d) == Raise("NameError")

(***************************************************************************)
(* Records handed to generate_readme: every combination of empty and       *)
(* populated fields, and profiles of up to MaxProfiles services.           *)
(***************************************************************************)
SampleHandle(key) ==
    CASE key = "stackoverflow" -> "42/janedoe"
      [] key = "orcid" -> "0000-0002-1825-0097"
      [] key \in {"dialnet", "scopus"} -> "12345"
      [] OTHER -> "janedoe"

SampleUrl(key) ==
    IF key = "website" THEN "https://example.org" ELSE Base(key) \o SampleHandle(key)

\* the profiles dicts with n keys, in the order extraction inserts them
ProfilesOfSize(n) ==
    { [i \in 1..n |-> [key |-> PROFILE_KEYS[f[i]], url |-> SampleUrl(PROFILE_KEYS[f[i]])]] :
        f \in { g \in [1..n -> 1..Len(PROFILE_KEYS)] : \A i \in 1..(n - 1) : g[i] < g[i + 1] } }

Emails == {"", "jane@example.com"}

LinkedIns == {"", "https://www.linkedin.com/in/janedoe"}

GitHubs == {"", "https://github.com/janedoe"}

Websites == {"", "https://janedoe.github.io"}

SkillChoices ==
    { << >>,
      << "Python", "React", "Docker" >>,
      << "Python", "python", "Java" >>,
      << "Sales", "Judo" >> }

\* every subset of the contact channels, with at most one profile
ContactRecords ==
    { [first_name |-> "Jane", last_name |-> "Doe", occupation |-> "",
       email |-> e, linkedin |-> l, github |-> g, website |-> "",
       profiles |-> p, skills |-> << >>] :
        e \in Emails, l \in LinkedIns, g \in GitHubs,
        p \in ProfilesOfSize(0) \cup ProfilesOfSize(1) }

\* every set of two to MaxProfiles profiles, beside a GitHub URL
ProfileRecords ==
    { [first_name |-> "Jane", last_name |-> "Doe", occupation |-> "",
       email |-> "", linkedin |-> "", github |-> "https://github.com/janedoe",
       website |-> "", profiles |-> p, skills |-> << >>] :
        p \in UNION { ProfilesOfSize(n) : n \in 2..MaxProfiles } }

\* every subset of the other fields
SectionRecords ==
    { [first_name |-> n[1], last_name |-> n[2], occupation |-> o,
       email |-> e, linkedin |-> "", github |-> g, website |-> w,
       profiles |-> p, skills |-> s] :
        n \in { << "", "" >>, << "Jane", "Doe" >>, << "Jane", "" >> },
        o \in {"", "Software Engineer"}, e \in Emails, g \in GitHubs, w \in Websites,
        p \in ProfilesOfSize(0), s \in SkillChoices }

Records == ContactRecords \cup ProfileRecords \cup SectionRecords

NoPdf == [plumber |-> "missing", pypdf |-> "missing", pages |-> << >>]

InitRender ==
    /\ pc = "extracted"
    /\ pdf = NoPdf
    /\ read_result = NotCalled
    /\ text = ""
    /\ data \in Records
    /\ readme = NotCalled
    /\ earlier = << >>
    /\ result = NoInfo
    /\ network = NoNetwork
    /\ MainNotStarted

\* app.py: readme_md = generate_readme(data), the function of readme_parser
GenerateReadme ==
    /\ pc = "extracted"
    /\ readme' = generate_readme(data)
    /\ pc' = "done"
    /\ UNCHANGED <<pdf, read_result, text, data, earlier, result, network>>
    /\ UNCHANGED main_vars

\* the same record handed to generate_readme of readme_generator.py
GenerateReadmeGenerator ==
    /\ pc = "extracted"
    /\ readme' = readme_generator_generate_readme(data)
    /\ pc' = "done_generator"
    /\ UNCHANGED <<pdf, read_result, text, data, earlier, result, network>>
    /\ UNCHANGED main_vars

NextRender == GenerateReadme \/ GenerateReadmeGenerator

SpecRender == InitRender /\ [][NextRender]_vars

(***************************************************************************)
(* Field extractor: extract_data_from_pdf, on the text of the document.    *)
(*                                                                         *)
(* Each regular expression of the source is written out as the scan the    *)
(* regex engine performs: the leftmost start position at which the pattern *)
(* matches, and greedy character runs.  Patterns compiled with             *)
(* re.IGNORECASE match their literals against the lower-cased text; the    *)
(* matched group is always cut from the text itself.                       *)
(***************************************************************************)
\* the printable ASCII characters (the grave accent excepted)
PrintableChars ==
    CharsOf("!\"#$%&'()*+,-./:;<=>?@[\\]^_{|}~") \cup Letters \cup Digits

\* seq[0] if seq else default
FirstOr(seq, default) == IF Len(seq) = 0 THEN default ELSE seq[1]

\* seq[-1] if seq else default
LastOr(seq, default) == IF Len(seq) = 0 THEN default ELSE seq[Len(seq)]

\* a or b
OrElse(a, b) == IF a # "" THEN a ELSE b

\* the position after the longest run of characters of C starting at i
RunEnd(s, i, C) ==
    FirstOr(SelectSeq([k \in 1..(Len(s) - i + 1) |-> i + k - 1],
                      LAMBDA j : Ch(s, j) \notin C),
            Len(s) + 1)

\* the first position of the longest run of characters of C ending at i
RunStart(s, i, C) ==
    LastOr(SelectSeq([k \in 1..i |-> k], LAMBDA j : Ch(s, j) \notin C), 0) + 1

\* "".join(F(i) for i in lo..hi), by halves
RECURSIVE ConcatRange(_, _, _)
ConcatRange(F(_), lo, hi) ==
    IF lo > hi THEN ""
    ELSE IF lo = hi THEN F(lo)
    ELSE LET mid == (lo + hi) \div 2
         IN  ConcatRange(F, lo, mid) \o ConcatRange(F, mid + 1, hi)

\* sub matches at i, within s
Has(s, i, sub) == i >= 1 /\ i + Len(sub) - 1 <= Len(s) /\ MatchAt(s, i, sub)

\* the positions of low where one of the literals lits matches
LiteralStarts(low, lits) ==
    Positions(low, LAMBDA i : \E a \in 1..Len(lits) : Has(low, i, lits[a]))

NoMatch == [found |-> FALSE, start |-> 0, group |-> 0, end |-> 0]

\* the group ([0-9]+/C+) when kind is "numbered", (C+) otherwise, matched at
\* g: the position after it, 0 when it does not match there
GroupEnd(t, g, kind, C) ==
    LET run(from, e) == IF e > from THEN e ELSE 0
        numbered(d) == IF d > g /\ d <= Len(t) /\ Ch(t, d) = "/"
                       THEN run(d + 1, RunEnd(t, d + 1, C)) ELSE 0
    IN  IF kind = "numbered" THEN numbered(RunEnd(t, g, Digits))
        ELSE run(g, RunEnd(t, g, C))

\* re.search(literal + group, t, re.IGNORECASE) for the alternative literals
\* lits: the match at the leftmost of the positions starts where a literal is
\* followed by the group (no two literals are followed by it at one position)
Search(t, low, starts, lits, kind, C) ==
    LET grouped(i, g, e) ==
            IF e = 0 THEN NoMatch ELSE [found |-> TRUE, start |-> i, group |-> g, end |-> e]
        with(i, lit) ==
            IF Has(low, i, lit)
            THEN grouped(i, i + Len(lit), GroupEnd(t, i + Len(lit), kind, C))
            ELSE NoMatch
        found(ms) == SelectSeq(ms, LAMBDA m : m.found)
        at(i) == FirstOr(found([a \in 1..Len(lits) |-> with(i, lits[a])]), NoMatch)
    IN  FirstOr(found([k \in 1..Len(starts) |-> at(starts[k])]), NoMatch)

\* https?://(?:www\.)? before each of the paths
WithSchemeWww(paths) ==
    [k \in 1..(4 * Len(paths)) |->
        (CASE k % 4 = 0 -> "https://www."
           [] k % 4 = 1 -> "https://"
           [] k % 4 = 2 -> "http://www."
           [] k % 4 = 3 -> "http://") \o paths[(k + 3) \div 4]]

\* https?:// before each of the paths
WithScheme(paths) ==
    [k \in 1..(2 * Len(paths)) |->
        (IF k % 2 = 0 THEN "https://" ELSE "http://") \o paths[(k + 1) \div 2]]

\* [\w\-.%]
HandleChars == WordChars \cup {"-", ".", "%"}

\* [A-Za-z0-9\-_]
SlugChars == Letters \cup Digits \cup {"-", "_"}

\* lines = [ln.strip() for ln in text.splitlines() if ln.strip()]
lines_of(t) ==
    LET stripped(raw) == [i \in 1..Len(raw) |-> Strip(raw[i])]
    IN  NonEmpty(stripped(SplitOnChars(t, {"\n", "\r", "\f"})))

\* [ÑA-Zña-z0-9._%+-]
EmailLocalChars == Letters \cup Digits \cup {".", "_", "%", "+", "-"}

\* [A-Za-z0-9-]
LabelChars == Letters \cup Digits \cup {"-"}

\* (?:[A-Za-z0-9-]+\.)+[A-Za-z]{2,} matched at q: the position after the
\* match, 0 when there is none.  The labels are the runs between the dots; the
\* engine keeps as many "label." groups as leave two letters or more behind.
DomainEnd(t, q) ==
    LET dots(e) ==
            SelectSeq([k \in 1..(e - q) |-> q + k - 1],
                LAMBDA d : /\ Ch(t, d) = "."
                           /\ Ch(t, q) # "."
                           /\ \A k \in q..(d - 1) : ~(Ch(t, k) = "." /\ Ch(t, k + 1) = ".")
                           /\ RunEnd(t, d + 1, Letters) >= d + 3)
        tld(d) == IF d = 0 THEN 0 ELSE RunEnd(t, d + 1, Letters)
    IN  tld(LastOr(dots(RunEnd(t, q, LabelChars \cup {"."})), 0))

\* re.search(r"[ÑA-Zña-z0-9._%+-]+@(?:[A-Za-z0-9-]+\.)+[A-Za-z]{2,}", text)
email_of(t) ==
    LET at(p) == IF p = 0 THEN ""
                 ELSE SubSeq(t, RunStart(t, p - 1, EmailLocalChars), DomainEnd(t, p + 1) - 1)
    IN  at(FirstOr(Positions(t, LAMBDA p : /\ Ch(t, p) = "@"
                                           /\ p > 1
                                           /\ Ch(t, p - 1) \in EmailLocalChars
                                           /\ DomainEnd(t, p + 1) # 0),
                   0))

\* the absolute URL with the optional slash inside the group
handle_url_SlashInGroup(t, low, https, path, prefix) ==
    LET absolute(m) == IF m.found THEN SubSeq(t, m.start, m.end - 1) ELSE ""
        bare(m) == IF m.found THEN prefix \o SubSeq(t, m.group, m.end - 1) ELSE ""
    IN  OrElse(absolute(Search(t, low, https, WithSchemeWww(<< path >>), "run",
                               HandleChars \cup {"/"})),
               bare(Search(t, low, LiteralStarts(low, << path >>), << path >>, "run",
                           HandleChars)))

\* group 1 of (https?://(?:www\.)?<path>[\w\-.%]+)/? or, failing that, the
\* handle of <path>([\w\-.%]+) after the canonical prefix
handle_url(t, low, https, path, prefix) ==
    LET absolute(m) == IF m.found THEN SubSeq(t, m.start, m.end - 1) ELSE ""
        bare(m) == IF m.found THEN prefix \o SubSeq(t, m.group, m.end - 1) ELSE ""
    IN  OrElse(absolute(Search(t, low, https, WithSchemeWww(<< path >>), "run", HandleChars)),
               bare(Search(t, low, LiteralStarts(low, << path >>), << path >>, "run",
                           HandleChars)))

linkedin_of(t, low, https) ==
    handle_url(t, low, https, "linkedin.com/in/", "https://www.linkedin.com/in/")

github_of(t, low, https) ==
    handle_url(t, low, https, "github.com/", "https://github.com/")

\* the position after http:// or https:// at i, 0 when neither is at i
SchemeEnd(s, i) ==
    IF Has(s, i, "https://") THEN i + 8 ELSE IF Has(s, i, "http://") THEN i + 7 ELSE 0

\* (https?://[A-Za-z0-9\-_]+\.github\.io)/? or, failing that,
\* "https://" + ([A-Za-z0-9\-_]+\.github\.io)
website_of(t, low, https) ==
    LET host(g, e) == IF g # 0 /\ e > g /\ Has(low, e, ".github.io") THEN e ELSE 0
        slug(g) == host(g, RunEnd(t, g, SlugChars))
        cut(i, e) == IF e = 0 THEN "" ELSE SubSeq(t, i, e + 9)
        absolute == [k \in 1..Len(https) |-> cut(https[k], slug(SchemeEnd(low, https[k])))]
        bare(e) == IF e = 0 THEN ""
                   ELSE "https://" \o SubSeq(t, RunStart(t, e - 1, SlugChars), e + 9)
    IN  OrElse(FirstOr(NonEmpty(absolute), ""),
               bare(FirstOr(Positions(low, LAMBDA e : /\ Has(low, e, ".github.io")
                                                      /\ e > 1
                                                      /\ Ch(t, e - 1) \in SlugChars),
                            0)))

\* host_patterns, in the order of the dict: the literal alternatives after
\* https?:// (www: whether (?:www\.)? follows the scheme), the kind of the
\* group and the characters of its class.  @? and o? give two alternatives.
HOST_PATTERNS == <<
    [key |-> "instagram", www |-> TRUE, paths |-> << "instagram.com/" >>,
     kind |-> "run", chars |-> Letters \cup Digits \cup {".", "_"}],
    [key |-> "x", www |-> TRUE, paths |-> << "x.com/" >>,
     kind |-> "run", chars |-> WordChars],
    [key |-> "twitter", www |-> TRUE, paths |-> << "twitter.com/" >>,
     kind |-> "run", chars |-> WordChars],
    [key |-> "gitlab", www |-> TRUE, paths |-> << "gitlab.com/" >>,
     kind |-> "run", chars |-> SlugChars],
    [key |-> "tiktok", www |-> TRUE, paths |-> << "tiktok.com/@", "tiktok.com/" >>,
     kind |-> "run", chars |-> SlugChars],
    [key |-> "facebook", www |-> TRUE, paths |-> << "facebook.com/" >>,
     kind |-> "run", chars |-> SlugChars \cup {"."}],
    [key |-> "stackoverflow", www |-> TRUE, paths |-> << "stackoverflow.com/users/" >>,
     kind |-> "numbered", chars |-> SlugChars],
    [key |-> "medium", www |-> TRUE, paths |-> << "medium.com/@", "medium.com/" >>,
     kind |-> "run", chars |-> SlugChars],
    [key |-> "devto", www |-> TRUE, paths |-> << "dev.to/" >>,
     kind |-> "run", chars |-> SlugChars],
    [key |-> "kaggle", www |-> TRUE, paths |-> << "kaggle.com/" >>,
     kind |-> "run", chars |-> SlugChars],
    [key |-> "codepen", www |-> TRUE, paths |-> << "codepen.io/" >>,
     kind |-> "run", chars |-> SlugChars],
    [key |-> "leetcode", www |-> TRUE, paths |-> << "leetcode.com/" >>,
     kind |-> "run", chars |-> Letters \cup Digits \cup {"-", "/"}],
    [key |-> "hackerrank", www |-> TRUE, paths |-> << "hackerrank.com/" >>,
     kind |-> "run", chars |-> SlugChars],
    [key |-> "bitbucket", www |-> TRUE, paths |-> << "bitbucket.org/" >>,
     kind |-> "run", chars |-> SlugChars],
    [key |-> "google_scholar", www |-> FALSE,
     paths |-> << "scholar.google.com/citations?user=" >>,
     kind |-> "run", chars |-> SlugChars],
    [key |-> "arxiv", www |-> FALSE, paths |-> << "arxiv.org/a/" >>,
     kind |-> "run", chars |-> SlugChars],
    [key |-> "orcid", www |-> FALSE, paths |-> << "orcid.org/" >>,
     kind |-> "run", chars |-> Digits \cup {"-", "X", "x"}],
    [key |-> "dialnet", www |-> FALSE,
     paths |-> << "dialnet.unirioja.es/servlet/articulocodigo=",
                  "dialnet.unirioja.es/servlet/articulcodigo=" >>,
     kind |-> "run", chars |-> Digits],
    [key |-> "scopus", www |-> FALSE,
     paths |-> << "www.scopus.com/authid/detail.uri?authorid=" >>,
     kind |-> "run", chars |-> Digits],
    [key |-> "researchgate", www |-> TRUE, paths |-> << "researchgate.net/profile/" >>,
     kind |-> "run", chars |-> SlugChars],
    [key |-> "academia", www |-> TRUE, paths |-> << "academia.edu/" >>,
     kind |-> "run", chars |-> SlugChars]
    >>

\* the keys of the dict of canonical prefixes
BASE_KEYS ==
    { "instagram", "x", "twitter", "tiktok", "facebook", "gitlab", "stackoverflow",
      "medium", "devto", "kaggle", "codepen", "leetcode", "hackerrank", "bitbucket",
      "google_scholar", "arxiv", "orcid", "dialnet", "scopus", "researchgate",
      "academia" }

\* re.search(pat, text, re.IGNORECASE) for the pattern of every service, in
\* the order of host_patterns
host_matches(t, low, https) ==
    LET lits(p) == IF p.www THEN WithSchemeWww(p.paths) ELSE WithScheme(p.paths)
    IN  [k \in 1..Len(HOST_PATTERNS) |->
            Search(t, low, https, lits(HOST_PATTERNS[k]),
                   HOST_PATTERNS[k].kind, HOST_PATTERNS[k].chars)]

\* [^\s\)\]\>]
UrlChars == PrintableChars \ {")", "]", ">"}

known_hosts ==
    << "github.com", "linkedin.com", "instagram.com", "x.com", "twitter.com",
       "gitlab.com", "facebook.com", "tiktok.com", "stackoverflow.com", "medium.com",
       "dev.to", "kaggle.com", "codepen.io", "leetcode.com", "hackerrank.com",
       "bitbucket.org", "dialnet.unirioja.es", "scholar.google.com", "arxiv.org",
       "orcid.org", "scopus.com", "researchgate.net", "academia.edu" >>

\* re.findall(r"https?://[^\s\)\]\>]+", text): a match runs to the end of its
\* run of URL characters, so the matches are the pattern positions that no
\* earlier match of the same run covers
all_urls(t) ==
    LET at(g) == g # 0 /\ RunEnd(t, g, UrlChars) > g
        first(cand) == SelectSeq(cand, LAMBDA i :
                           \A j \in 1..Len(cand) :
                               cand[j] < i => RunEnd(t, cand[j], UrlChars) <= i)
        cut(from) == [k \in 1..Len(from) |->
                         SubSeq(t, from[k], RunEnd(t, from[k], UrlChars) - 1)]
    IN  cut(first(Positions(t, LAMBDA i : Ch(t, i) = "h" /\ at(SchemeEnd(t, i)))))

\* the URLs that contain no known host, stripped of trailing .,;)
website_fallback(t) ==
    LET cleaned(urls) == [k \in 1..Len(urls) |-> RStripChars(urls[k], {".", ",", ";", ")"})]
    IN  SelectSeq(cleaned(all_urls(t)), LAMBDA u :
            \A h \in 1..Len(known_hosts) : ~Contains(u, known_hosts[h]))

\* profiles[key] = m.group(0).rstrip("/"): the matched text as it stands
profiles_of_RawMatch(t, ms) ==
    LET entry(key, m) ==
            [key |-> key,
             url |-> RStripChars(SubSeq(t, m.start, m.end - 1), {"/"})]
        entries(found) ==
            [j \in 1..Len(found) |-> entry(HOST_PATTERNS[found[j]].key, ms[found[j]])]
        website(other) ==
            IF Len(other) > 0 THEN << [key |-> "website", url |-> other[1]] >> ELSE << >>
    IN  entries(SelectSeq([k \in 1..Len(ms) |-> k], LAMBDA k : ms[k].found))
            \o website(website_fallback(t))

\* the profiles dict: profiles[key] = base + m.group(1).rstrip("/") for the
\* services that matched, then "website" for the first foreign URL ("website"
\* is never a key of host_patterns)
profiles_of(t, ms) ==
    LET entry(key, m) ==
            [key |-> key,
             url |-> Base(key) \o RStripChars(SubSeq(t, m.group, m.end - 1), {"/"})]
        entries(found) ==
            [j \in 1..Len(found) |-> entry(HOST_PATTERNS[found[j]].key, ms[found[j]])]
        website(other) ==
            IF Len(other) > 0 THEN << [key |-> "website", url |-> other[1]] >> ELSE << >>
    IN  entries(SelectSeq([k \in 1..Len(ms) |-> k], LAMBDA k : ms[k].found))
            \o website(website_fallback(t))

\* name_pattern.match(ln) and "@" not in ln and len(ln.split()) >= 2, for a
\* stripped line: a letter, then one or more letters, blanks, hyphens or
\* apostrophes
is_name_line(ln) ==
    /\ Len(ln) >= 2
    /\ Ch(ln, 1) \in Letters
    /\ \A i \in 2..Len(ln) : Ch(ln, i) \in Letters \cup Whitespace \cup {"-", "'"}
    /\ \A i \in 1..Len(ln) : Ch(ln, i) # "@"
    /\ Len(SplitWs(ln)) >= 2

\* the same without the bound of ten lines
name_parts_AnyLine(lines) ==
    LET split(named) == IF Len(named) = 0 THEN << >> ELSE SplitWs(named[1])
    IN  split(SelectSeq(lines, is_name_line))

\* ln.split() of the first name-like line among lines[:10], << >> when none
name_parts(lines) ==
    LET split(named) == IF Len(named) = 0 THEN << >> ELSE SplitWs(named[1])
    IN  split(SelectSeq(SubSeq(lines, 1, IF Len(lines) < 10 THEN Len(lines) ELSE 10),
                        is_name_line))

\* parts[0]
first_name_of(parts) == FirstOr(parts, "")

\* " ".join(parts[1:])
last_name_of(parts) == IF Len(parts) = 0 THEN "" ELSE JoinWith(Tail(parts), " ")

occ_keywords ==
    << "mathematician", "computer scientist", "student", "intern", "phd", "ph.d",
       "postdoc", "post-doctoral", "professor", "lecturer", "researcher", "scientist",
       "data scientist", "data analyst", "software engineer", "engineer", "developer",
       "full-stack", "full stack", "frontend", "front-end", "backend", "back-end",
       "machine learning", "ml engineer", "research assistant", "manager", "consultant",
       "analyst", "architect", "teacher", "assistant", "director",
       "engineer-in-training" >>

\* the lower-cased re.findall(r"\w+", ...) of the first and the last name
name_tokens_of(parts) ==
    LET words(s) == NonEmpty(SplitOnChars(s, (PrintableChars \cup Whitespace) \ WordChars))
        lowered(ws) == { Lower(ws[i]) : i \in 1..Len(ws) }
    IN  lowered(words(first_name_of(parts))) \cup lowered(words(last_name_of(parts)))

\* re.sub(r"\s+", " ", s).strip()
collapse_spaces(s) ==
    LET out(i) == IF Ch(s, i) \notin Whitespace THEN Ch(s, i)
                  ELSE IF i = 1 \/ Ch(s, i - 1) \notin Whitespace THEN " "
                  ELSE ""
    IN  Strip(ConcatRange(out, 1, Len(s)))

\* sorted(name_tokens, key=len, reverse=True): the lists this can be.  The
\* sort is stable, so tokens of one length keep the iteration order of the
\* set, which depends on the hash seed of the process: every order of the
\* tokens by non-increasing length is possible.
sorted_name_tokens(name_tokens) ==
    { order \in [1..Cardinality(name_tokens) -> name_tokens] :
        \A i \in 1..Cardinality(name_tokens) : \A j \in 1..Cardinality(name_tokens) :
            i < j => order[i] # order[j] /\ Len(order[i]) >= Len(order[j]) }

\* re.sub(rf"\b{re.escape(nt)}\b", " ", res, flags=re.IGNORECASE), for a
\* token nt of \w characters: nt stands where a run of \w begins and no \w
\* follows it; each occurrence becomes one blank
sub_name_token(res, nt) ==
    LET out(begins) ==
            ConcatRange(LAMBDA i : IF i \in begins THEN " "
                                   ELSE IF \E b \in begins : b < i /\ i < b + Len(nt) THEN ""
                                   ELSE Ch(res, i),
                        1, Len(res))
        matches(low) ==
            { i \in 1..Len(low) :
                /\ Has(low, i, nt)
                /\ (i = 1 \/ Ch(low, i - 1) \notin WordChars)
                /\ (i + Len(nt) > Len(low) \/ Ch(low, i + Len(nt)) \notin WordChars) }
    IN  out(matches(Lower(res)))

\* the loop left after the first token
_remove_name_tokens_FirstOnly(s, order) ==
    collapse_spaces(IF Len(order) = 0 THEN s ELSE sub_name_token(s, order[1]))

\* _remove_name_tokens(s), with order the list the loop iterates over: every
\* token in turn is replaced by a blank, then blanks are collapsed
_remove_name_tokens(s, order) ==
    LET RECURSIVE loop(_, _)
        loop(res, k) == IF k > Len(order) THEN res
                        ELSE loop(sub_name_token(res, order[k]), k + 1)
    IN  collapse_spaces(loop(s, 1))

\* whether one of the words (each begins and ends with a \w character)
\* matches \b<word>\b in low: the word stands where a run of \w begins, and no
\* \w follows it
has_word(low, words) ==
    LET at(i, w) == /\ Has(low, i, w)
                    /\ (i + Len(w) > Len(low) \/ Ch(low, i + Len(w)) \notin WordChars)
        among(starts) == \E k \in 1..Len(starts) : \E j \in 1..Len(words) :
                             at(starts[k], words[j])
    IN  among(Positions(low, LAMBDA i : /\ Ch(low, i) \in WordChars
                                        /\ (i = 1 \/ Ch(low, i - 1) \notin WordChars)))

\* re.sub(r"[^a-z0-9]", "", s)
compact_of(s) ==
    ConcatRange(LAMBDA i : IF Ch(s, i) \in LowerLetters \cup Digits THEN Ch(s, i) ELSE "",
                1, Len(s))

\* kw_compact of every keyword
occ_keywords_compact == [k \in 1..Len(occ_keywords) |-> compact_of(occ_keywords[k])]

\* the keywords whose compact form occurs in the compact form of low
compact_matches(low) ==
    LET inside(compact) ==
            SelectSeq([k \in 1..Len(occ_keywords) |-> k], LAMBDA k :
                occ_keywords_compact[k] # "" /\ Contains(compact, occ_keywords_compact[k]))
        keywords(hits) == [j \in 1..Len(hits) |-> occ_keywords[hits[j]]]
    IN  keywords(inside(compact_of(low)))

\* s.title(): a letter is upper-cased after a non-letter, lower-cased after a
\* letter
title(s) ==
    ConcatRange(LAMBDA i : IF i = 1 \/ Ch(s, i - 1) \notin Letters THEN UpperCh(Ch(s, i))
                           ELSE LowerCh(Ch(s, i)),
                1, Len(s))

\* the loop over lines[:6], from line k on, with the occupation found so far.
\* A run-on match sets the occupation to the title-cased first keyword (the
\* break at the end of the first round of `for m in matches`) and does not
\* leave the loop over the lines: the next line of three characters or more
\* ends it, and replaces the occupation if it holds a keyword as a word.
RECURSIVE occupation_from_lines(_, _, _, _)
occupation_from_lines(lines, name_tokens, k, occupation) ==
    LET line(cleaned) ==
            IF Len(cleaned) < 3
            THEN occupation_from_lines(lines, name_tokens, k + 1, occupation)
            ELSE IF has_word(Lower(cleaned), occ_keywords) THEN cleaned
            ELSE IF occupation # "" THEN occupation
            ELSE occupation_from_lines(lines, name_tokens, k + 1,
                     title(FirstOr(compact_matches(Lower(cleaned)), "")))
    IN  IF k > Len(lines) \/ k > 6 THEN occupation
        ELSE line(_remove_name_tokens(lines[k], name_tokens))

\* the fallback over re.split(r"[.\n\r;]+", text): the first segment that
\* holds a keyword as a word, cleaned
occupation_from_segments(t, name_tokens) ==
    LET clean(seg) == IF Len(seg) < 3 THEN "" ELSE _remove_name_tokens(seg, name_tokens)
        cleaned(segments) == [k \in 1..Len(segments) |-> clean(Strip(segments[k]))]
    IN  FirstOr(SelectSeq(cleaned(SplitOnChars(t, {".", "\n", "\r", ";"})),
                          LAMBDA c : Len(c) >= 3 /\ has_word(Lower(c), occ_keywords)),
                "")

occupation_of(t, lines, name_tokens) ==
    OrElse(occupation_from_lines(lines, name_tokens, 1, ""),
           occupation_from_segments(t, name_tokens))

\* the words of the section header pattern (the accented spelling cannot be
\* written here)
SKILL_HEADERS == << "skills", "habilidades", "tecnologias", "technologies", "habilities" >>

\* the index of the first line with a header word, 0 when there is none
skill_section(lines) ==
    FirstOr(SelectSeq([i \in 1..Len(lines) |-> i],
                      LAMBDA i : has_word(Lower(lines[i]), SKILL_HEADERS)),
            0)

\* [s.strip() for s in items if 2 <= len(s.strip()) <= 40]
skill_items_Unstripped(items) ==
    SelectSeq(items, LAMBDA s : 2 <= Len(Strip(s)) /\ Len(Strip(s)) <= 40)

skill_items(items) ==
    SelectSeq([k \in 1..Len(items) |-> Strip(items[k])],
              LAMBDA s : 2 <= Len(s) /\ Len(s) <= 40)

\* the same over the header line and the four lines after it
skills_of_FiveLines(lines) ==
    LET window(i) == SubSeq(lines, i, IF i + 4 < Len(lines) THEN i + 4 ELSE Len(lines))
        from(i) ==
            IF i = 0 THEN << >>
            ELSE SelectSeq(skill_items(SplitOnChars(JoinWith(window(i), " "),
                                                    {"-", "\n", "\r", ",", ";"})),
                           LAMBDA s : Lower(s) \notin {"skills", "habilidades"})
    IN  from(skill_section(lines))

\* lines[skill_section : skill_section + 4] joined by blanks, split on the
\* separators (a run of separators yields empty items, which the length
\* filter drops), trimmed, without the items that are a bare header word
skills_of(lines) ==
    LET window(i) == SubSeq(lines, i, IF i + 3 < Len(lines) THEN i + 3 ELSE Len(lines))
        from(i) ==
            IF i = 0 THEN << >>
            ELSE SelectSeq(skill_items(SplitOnChars(JoinWith(window(i), " "),
                                                    {"-", "\n", "\r", ",", ";"})),
                           LAMBDA s : Lower(s) \notin {"skills", "habilidades"})
    IN  from(skill_section(lines))

\* extract_data_from_pdf, from text = _read_pdf_text(path) on: the outcomes
\* the call can have, one for each list the name tokens can be sorted into.
\* The only operation that can raise is the subscript of the dict of
\* canonical prefixes by a key of host_patterns.
extract_data_from_pdf(t) ==
    LET outcomes(other, orders, lines) ==
            { Return([other EXCEPT !.occupation = occupation_of(t, lines, order)]) :
                order \in orders }
        fields(low, https, lines, parts, ms) ==
            IF \E k \in 1..Len(ms) : ms[k].found /\ HOST_PATTERNS[k].key \notin BASE_KEYS
            THEN {Raise("KeyError")}
            ELSE outcomes([first_name |-> first_name_of(parts),
                           last_name |-> last_name_of(parts),
                           occupation |-> "",
                           email |-> email_of(t),
                           linkedin |-> linkedin_of(t, low, https),
                           github |-> github_of(t, low, https),
                           website |-> website_of(t, low, https),
                           profiles |-> profiles_of(t, ms),
                           skills |-> skills_of(lines)],
                          sorted_name_tokens(name_tokens_of(parts)), lines)
        named(low, https, lines) ==
            fields(low, https, lines, name_parts(lines), host_matches(t, low, https))
        scanned(low) == named(low, LiteralStarts(low, << "http" >>), lines_of(t))
    IN  scanned(Lower(t))

(***************************************************************************)
(* Texts handed to the extractor: the scenario texts, and every text of up *)
(* to MaxLines different lines of a pool of CV lines, in any order.        *)
(***************************************************************************)
JANE_DOE_TEXT ==
    "Jane Doe\nSoftware Engineer\njane@example.com\ngithub.com/janedoe\nSkills: Python, React, Docker"

\* texts with no name-like line, no contact information and no skills section
BLANK_TEXTS == { "", "12345", "  \n --- \n" }

LINE_POOL ==
    << "Jane Doe",
       "  Software Engineer  ",
       "Contact: jane@example.com.",
       "github.com/janedoe",
       "https://www.linkedin.com/in/jane-doe/",
       "Skills: Python, React, Docker",
       " Python , SQL ;  Git ",
       "See (https://example.org/me).",
       "Portfolio janedoe.github.io",
       "https://x.com/jane_d and https://www.tiktok.com/@janed",
       "Senior Developers 2024" >>

\* the texts of n different lines of the pool
TextsOfLines(n) ==
    { JoinWith([i \in 1..n |-> LINE_POOL[f[i]]], "\n") :
        f \in { g \in [1..n -> 1..Len(LINE_POOL)] :
                   \A i \in 1..n : \A j \in 1..n : i # j => g[i] # g[j] } }

\* a skills section that names a skill twice, as a bullet list under the header
REPEATED_SKILL_TEXT == "Skills\n- Python, SQL, Python"

\* handles of profile URLs
HANDLES == {"alice", "bob", "jane-doe", "J.Doe_1"}

\* a LinkedIn or GitHub address alone in the text: the bare fragment or an
\* absolute URL, with and without a trailing slash
HandleTexts ==
    { pre \o host \o h \o slash :
        pre \in {"", "http://", "https://", "https://www."},
        host \in {"linkedin.com/in/", "github.com/"},
        h \in HANDLES, slash \in {"", "/"} }

\* the profile address of SampleHandle(key) on the service key, alone in the
\* text: with either scheme, with and without a trailing slash, with and without
\* www. where the pattern of the service has the optional group (the
\* canonical prefix decides for the others)
ProfileUrlTexts(key) ==
    LET path == StripSchemeWww(Base(key))
        own == IF Contains(Base(key), "://www.") THEN "www." ELSE ""
        optional == \E k \in 1..Len(HOST_PATTERNS) :
                        HOST_PATTERNS[k].key = key /\ HOST_PATTERNS[k].www
    IN  { scheme \o www \o path \o SampleHandle(key) \o slash :
            scheme \in {"http://", "https://"},
            www \in (IF optional THEN {"", "www."} ELSE {own}),
            slash \in {"", "/"} }

\* texts with URLs on hosts of no service
WEBSITE_TEXTS ==
    { "https://netflix.com/jane",
      "https://example.org/share?u=github.com/jane",
      "Code: https://github.com/jane, site: https://jane.dev/cv.",
      "https://gitlab.com/jane and https://www.kaggle.com/jane",
      "http://blog.example.org http://jane.dev" }

\* texts whose occupation line is written run-together or in the plural: a
\* run-on line before a line without a keyword and a line with one, the run-on
\* line of the comment at line 105 alone and before a line with a keyword
OCCUPATION_TEXTS ==
    { "Jane Doe\nSenior Developers 2024\ngithub.com/janedoe\nSoftware Engineer",
      "Jane Doe\nmathematicianandcomputerscientist",
      "Jane Doe\nmathematicianandcomputerscientist\nSoftware Engineer",
      "Jane Doe\n12345\nPortfolio.\nLecturer; Consultant" }

\* texts whose name line comes late: as the tenth line with its tokens two
\* blanks apart, as the eleventh line, after a one-word line, and as the
\* seventh line with text (the thirteenth counting the empty ones)
NAME_TEXTS ==
    { "1\n2\n3\n4\n5\n6\n7\n8\n9\nAda  Mary Lovelace\nJane Doe",
      "1\n2\n3\n4\n5\n6\n7\n8\n9\n10\nAnn Lee",
      "Curriculum\nMary-Jane O'Neil\nJane Doe",
      "\n1\n\n2\n\n3\n\n4\n\n5\n\n6\nJane Doe" }

\* a fragment of forty characters and one of forty-one
FORTY == "aaaaaaaaaaaaaaaaaaaaaaaaaaaaaaaaaaaaaaaa"
FORTY_ONE == "bbbbbbbbbbbbbbbbbbbbbbbbbbbbbbbbbbbbbbbbb"

\* skills sections: under a header word that the filter of line 253 does not
\* name, with header words as fragments, and one of five lines with
\* fragments of one, two, forty and forty-one characters, followed by a
\* second header line
SKILL_TEXTS ==
    { "Technologies\n- Python, SQL",
      "Habilities, Tecnologias; Go",
      "Skills\n- Go, R,\n" \o FORTY \o "; " \o FORTY_ONE \o ";\nSQL,\nGit\nSkills: Java" }

Texts ==
    {JANE_DOE_TEXT, REPEATED_SKILL_TEXT} \cup BLANK_TEXTS \cup HandleTexts
        \cup WEBSITE_TEXTS \cup OCCUPATION_TEXTS \cup NAME_TEXTS \cup SKILL_TEXTS
        \cup UNION { ProfileUrlTexts(HOST_KEYS[k]) : k \in 1..Len(HOST_KEYS) }
        \cup UNION { TextsOfLines(n) : n \in 1..MaxLines }

InitExtract ==
    /\ pc = "text"
    /\ pdf = NoPdf
    /\ text \in Texts
    /\ read_result = Return(text)
    /\ data = EmptyData
    /\ readme = NotCalled
    /\ earlier = << >>
    /\ result = NoInfo
    /\ network = NoNetwork
    /\ MainNotStarted

\* app.py: data = extract_data_from_pdf(path), after the text has been read
ExtractData ==
    /\ pc = "text"
    /\ \E r \in extract_data_from_pdf(text) :
          /\ pc' = IF r.kind = "return" THEN "extracted" ELSE "extract_failed"
          /\ data' = IF r.kind = "return" THEN r.value ELSE data
    /\ UNCHANGED <<pdf, read_result, text, readme, earlier, result, network>>
    /\ UNCHANGED main_vars

NextExtract == ExtractData \/ GenerateReadme

SpecExtract == InitExtract /\ [][NextExtract]_vars

\* the program is started again on the same document: a new process, which
\* keeps nothing of the run before.  The outcome of the finished run is
\* recorded in earlier.
RunAgain ==
    /\ pc \in {"done", "extract_failed"}
    /\ Len(earlier) + 1 < MaxRuns
    /\ earlier' = Append(earlier, [pc |-> pc, data |-> data, readme |-> readme])
    /\ pc' = "text"
    /\ data' = EmptyData
    /\ readme' = NotCalled
    /\ UNCHANGED <<pdf, read_result, text, result, network>>
    /\ UNCHANGED main_vars

NextRepeat == ExtractData \/ GenerateReadme \/ RunAgain

SpecRepeat == InitExtract /\ [][NextRepeat]_vars

(***************************************************************************)
(* GitHub lookup: CVParser.extract_github_info of src/cv_parser.py.  It    *)
(* reads the document with PyPDF2 alone, searches the text for a username  *)
(* and asks the GitHub API whether the user exists.                        *)
(***************************************************************************)
\* extract_text_from_pdf: text += page.extract_text() for every page, with no
\* separator; an open that fails, a page that raises and a page whose
\* extract_text() is None (str += None) end in the except branch, which
\* returns ""
extract_text_from_pdf(d) ==
    IF d.pypdf # "ok" \/ \E i \in 1..Len(d.pages) : d.pages[i].pypdf \in {"raise", "none"}
    THEN ""
    ELSE JoinWith([i \in 1..Len(d.pages) |-> extract_text(d.pages[i].pypdf, i)], "")

\* [a-zA-Z0-9_-]
UsernameChars == Letters \cup Digits \cup {"_", "-"}

\* re.findall(pattern, text, re.IGNORECASE)[0] for the patterns of
\* github_patterns, in their order, "" where findall returns no match.  The
\* optional (?:my\s+)? of the last two patterns moves the start of a match,
\* not its group.
github_patterns(t, low) ==
    LET group(g) == IF RunEnd(t, g, UsernameChars) > g
                    THEN SubSeq(t, g, RunEnd(t, g, UsernameChars) - 1) ELSE ""
        \* <literal>\s*([a-zA-Z0-9_-]+) at i
        after(i, literal) ==
            IF Has(low, i, literal) THEN group(RunEnd(t, i + Len(literal), Whitespace))
            ELSE ""
        \* github\s+profile:\s*([a-zA-Z0-9_-]+) at i
        profile(i, w) ==
            IF Has(low, i, "github") /\ w > i + 6 THEN after(w, "profile:") ELSE ""
        first(groups) == FirstOr(NonEmpty(groups), "")
        url == first([i \in 1..Len(t) |->
                         IF Has(low, i, "github.com/") THEN group(i + 11) ELSE ""])
        at == first([i \in 1..Len(t) |-> IF Ch(t, i) = "@" THEN group(i + 1) ELSE ""])
        label == first([i \in 1..Len(t) |-> after(i, "github:")])
        titled == first([i \in 1..Len(t) |-> profile(i, RunEnd(t, i + 6, Whitespace))])
    IN  << url, at, label, label, titled, titled, label, label >>

\* find_github_username: the first match of the first pattern whose first
\* match is at most 39 characters long (it always fits ^[a-zA-Z0-9_-]+$),
\* None when there is none
find_github_username(t) ==
    LET valid(firsts) == SelectSeq(firsts, LAMBDA u : u # "" /\ Len(u) <= 39)
        found(usernames) == IF Len(usernames) = 0 THEN None ELSE << usernames[1] >>
    IN  found(valid(github_patterns(t, Lower(t))))

\* what requests.get(url, timeout=5) does: it returns a response with a
\* status code, or raises (raised names the exception)
NetworkOutcomes ==
    { [raised |-> "", status |-> 200], [raised |-> "", status |-> 404],
      [raised |-> "", status |-> 403], [raised |-> "", status |-> 500],
      [raised |-> "Timeout", status |-> 0], [raised |-> "ConnectionError", status |-> 0] }

\* verify_github_user that takes any response for a success
verify_github_user_StatusUnchecked(username, net) ==
    IF username = None \/ username = << "" >>
    THEN [outcome |-> Return(FALSE), network |-> net]
    ELSE [outcome |-> Return(net.outcome.raised = ""),
          network |-> [net EXCEPT !.calls = @ + 1]]

\* verify_github_user: the value returned and the network after the call.  A
\* falsy username returns before any request; otherwise one request is made,
\* and an exception of it is caught.
verify_github_user(username, net) ==
    IF username = None \/ username = << "" >>
    THEN [outcome |-> Return(FALSE), network |-> net]
    ELSE [outcome |-> Return(net.outcome.raised = "" /\ net.outcome.status = 200),
          network |-> [net EXCEPT !.calls = @ + 1]]

\* the documents CVParser is given: pdfplumber plays no part
CvPdfs ==
    { d \in Pdfs : /\ d.plumber = "missing"
                   /\ d.pypdf # "missing"
                   /\ \A i \in 1..Len(d.pages) : d.pages[i].plumber = "none" }

\* the usernames verify_github_user is called with on its own
Usernames == { None, << "" >>, << "janedoe" >> }

InitGithubInfo ==
    /\ pc = "info_start"
    /\ pdf \in CvPdfs
    /\ read_result = NotCalled
    /\ text = ""
    /\ data = EmptyData
    /\ readme = NotCalled
    /\ earlier = << >>
    /\ result = NoInfo
    /\ network \in [outcome : NetworkOutcomes, calls : {0}]
    /\ MainNotStarted

\* the same without the return on an empty text
ExtractTextFromPdf_GoesOn ==
    /\ pc = "info_start"
    /\ text' = extract_text_from_pdf(pdf)
    /\ pc' = "info_text"
    /\ result' = IF text' = "" THEN result ELSE [result EXCEPT !.text_extracted = TRUE]
    /\ UNCHANGED <<pdf, read_result, data, readme, earlier, network>>
    /\ UNCHANGED main_vars

\* extract_github_info, lines 70-74: text = self.extract_text_from_pdf(pdf_path)
ExtractTextFromPdf ==
    /\ pc = "info_start"
    /\ text' = extract_text_from_pdf(pdf)
    /\ pc' = IF text' = "" THEN "info_returned" ELSE "info_text"
    /\ result' = IF text' = "" THEN result ELSE [result EXCEPT !.text_extracted = TRUE]
    /\ UNCHANGED <<pdf, read_result, data, readme, earlier, network>>
    /\ UNCHANGED main_vars

\* lines 77-81: username = self.find_github_username(text)
FindGithubUsername ==
    /\ pc = "info_text"
    /\ \E username \in {find_github_username(text)} :
          /\ pc' = IF username = None THEN "info_returned" ELSE "info_username"
          /\ result' = IF username = None THEN result
                       ELSE [result EXCEPT !.username = username]
    /\ UNCHANGED <<pdf, read_result, text, data, readme, earlier, network>>
    /\ UNCHANGED main_vars

\* lines 84-87: result['verified'] = self.verify_github_user(username)
VerifyGithubUser ==
    /\ pc = "info_username"
    /\ \E call \in {verify_github_user(result.username, network)} :
          /\ pc' = IF call.outcome.kind = "return" THEN "info_returned" ELSE "info_raised"
          /\ result' = IF call.outcome.kind = "return"
                       THEN [result EXCEPT !.verified = call.outcome.value]
                       ELSE result
          /\ network' = call.network
    /\ UNCHANGED <<pdf, read_result, text, data, readme, earlier>>
    /\ UNCHANGED main_vars

\* verify_github_user called on its own, with any username; result keeps the
\* argument and the value returned
CallVerifyGithubUser ==
    /\ pc = "info_start"
    /\ \E username \in Usernames :
          \E call \in {verify_github_user(username, network)} :
              /\ pc' = IF call.outcome.kind = "return" THEN "verify_returned"
                       ELSE "verify_raised"
              /\ result' = [result EXCEPT !.username = username,
                                          !.verified = call.outcome.kind = "return"
                                                          /\ call.outcome.value]
              /\ network' = call.network
    /\ UNCHANGED <<pdf, read_result, text, data, readme, earlier>>
    /\ UNCHANGED main_vars

NextGithubInfo ==
    ExtractTextFromPdf \/ FindGithubUsername \/ VerifyGithubUser \/ CallVerifyGithubUser

SpecGithubInfo == InitGithubInfo /\ [][NextGithubInfo]_vars

(***************************************************************************)
(* Command line: main of src/app.py.  One run: the check that the PDF      *)
(* exists, the extraction, the optional edit at the prompts, the           *)
(* normalisation of the URL fields, the generation, and the writing of the *)
(* output file.  What the user types is the sequence of lines on standard  *)
(* input: input() returns the next line and raises EOFError when the lines *)
(* are used up.  An exception that main does not catch ends the process    *)
(* with a traceback and status 1.                                          *)
(***************************************************************************)
\* the keys prompt_edit asks for, in order
EDIT_KEYS ==
    << "first_name", "last_name", "occupation", "email", "linkedin", "github", "website" >>

\* [x.strip() for x in s.split(",") if x.strip()]
comma_items(s) ==
    LET stripped(pieces) == [k \in 1..Len(pieces) |-> Strip(pieces[k])]
    IN  NonEmpty(stripped(SplitOn(s, ",")))

\* _edit_skills(current), input() returning line
_edit_skills(current, line) ==
    LET edit(s) ==
            IF s = "" THEN current
            ELSE IF Ch(s, 1) = "+" THEN current \o comma_items(SubSeq(s, 2, Len(s)))
            ELSE comma_items(s)
    IN  edit(Strip(line))

\* _edit_profiles(current), input() returning line: the statements of
\* _edit_skills on the list of profiles
_edit_profiles(current, line) ==
    LET edit(s) ==
            IF s = "" THEN current
            ELSE IF Ch(s, 1) = "+" THEN current \o comma_items(SubSeq(s, 2, Len(s)))
            ELSE comma_items(s)
    IN  edit(Strip(line))

\* prompt_edit(data) on the record d, lines being what is left on standard
\* input: seven prompts for the fields, one for the skills, one for the
\* profiles.  A dict of profiles is handed to _edit_profiles as the list of
\* its values, and the list that comes back is stored in data["profiles"].
prompt_edit(d, lines) ==
    LET new(k) == Strip(lines[k])
        field(k) == IF new(k) # "" THEN new(k) ELSE d[EDIT_KEYS[k]]
        values(p) ==
            IF p.type = "list" THEN p.items ELSE [i \in 1..Len(p.items) |-> p.items[i].url]
    IN  IF Len(lines) < Len(EDIT_KEYS) + 2 THEN Raise("EOFError")
        ELSE Return([first_name |-> field(1), last_name |-> field(2),
                     occupation |-> field(3), email |-> field(4),
                     linkedin |-> field(5), github |-> field(6), website |-> field(7),
                     skills |-> _edit_skills(d.skills, lines[8]),
                     profiles |-> [type |-> "list",
                                   items |-> _edit_profiles(values(d.profiles), lines[9])]])

\* the position of the colon that ends the scheme of s, 0 when urlparse finds
\* no scheme: a letter, then letters, digits, + - . up to the first colon
scheme_end(s) ==
    LET colon(i) ==
            IF /\ i > 1
               /\ Ch(s, 1) \in Letters
               /\ \A j \in 1..(i - 1) : Ch(s, j) \in Letters \cup Digits \cup {"+", "-", "."}
            THEN i ELSE 0
    IN  colon(FindFrom(s, ":", 1))

\* the netloc urlparse splits off: what follows "//" after the scheme, up to
\* the first / ? or #
netloc_of(s) ==
    LET netloc(rest) ==
            IF StartsWith(rest, "//")
            THEN SubSeq(rest, 3, RunEnd(rest, 3, PrintableChars \ {"/", "?", "#"}) - 1)
            ELSE ""
    IN  netloc(SubSeq(s, scheme_end(s) + 1, Len(s)))

\* _normalize_url(u): urlparse raises ValueError ("Invalid IPv6 URL") on a
\* netloc with one square bracket and not the other
_normalize_url(u) ==
    LET normalized(s) ==
            IF Contains(netloc_of(s), "[") # Contains(netloc_of(s), "]")
            THEN Raise("ValueError")
            ELSE IF scheme_end(s) > 0 THEN Return(s)
            ELSE Return("https://" \o s)
    IN  IF u = "" THEN Return("") ELSE normalized(Strip(u))

\* generate_readme on the record main holds: `profiles = data.get("profiles",
\* {}) or {}` keeps a list that is not empty, and profiles.get at line 300
\* raises AttributeError on it
main_generate_readme(d) ==
    IF d.profiles.type = "list" /\ Len(d.profiles.items) > 0 THEN Raise("AttributeError")
    ELSE generate_readme([d EXCEPT !.profiles =
                             IF d.profiles.type = "dict" THEN d.profiles.items ELSE << >>])

\* what is typed at the prompts: nothing at all, a refusal, the empty answer
\* to every prompt, new values for some fields, a github value that urlparse
\* rejects, and input that ends within prompt_edit
STDINS ==
    { << >>,
      << "n" >>,
      << "", "", "", "", "", "", "", "", "", "" >>,
      << " Y ", " Ann ", "", "", "", "", "github.com/alice", "", "+Go, ,Rust ", "" >>,
      << "yes", "", "", "", "", "", "", "jane.dev", "SQL", "https://x.com/ann" >>,
      << "y", "", "", "", "", "", "http://[x", "", "", "" >>,
      << "y", "", "" >> }

\* the texts of the documents main is run on: with and without a GitHub
\* address, profiles and skills
MAIN_TEXTS ==
    { JANE_DOE_TEXT,
      "",
      "Skills: Python, React, Docker",
      "github.com/janedoe\nhttps://x.com/jane_d and https://www.tiktok.com/@janed" }

\* the output path before the run: absent, or a file of an earlier run
OUT_BEFORE ==
    { [exists |-> FALSE, content |-> ""], [exists |-> TRUE, content |-> "# old README"] }

\* args.pdf is no file, a file that no backend reads, or a readable file;
\* the output path can be opened and written, cannot be opened, or is opened
\* and the write fails
Clis ==
    [pdf : {"missing", "unreadable", "readable"}, no_edit : BOOLEAN,
     output : {"writable", "open_fails", "write_fails"}, stdin : STDINS,
     out_before : OUT_BEFORE]

InitMain ==
    /\ pc = "main"
    /\ pdf = NoPdf
    /\ cli \in Clis
    /\ text \in MAIN_TEXTS
    /\ read_result = IF cli.pdf = "readable" THEN Return(text) ELSE Raise("RuntimeError")
    /\ data = EmptyData
    /\ readme = NotCalled
    /\ earlier = << >>
    /\ result = NoInfo
    /\ network = NoNetwork
    /\ edited = AsHeld(EmptyData)
    /\ steps = << >>
    /\ out_file = cli.out_before
    /\ exit_status = None

\* sys.exit(1), and the end of the process on an exception nobody catches
Exit1 ==
    /\ pc' = "exited"
    /\ exit_status' = << 1 >>

\* lines 194-196: os.path.isfile(args.pdf)
CheckPdfIsFile ==
    /\ pc = "main"
    /\ IF cli.pdf = "missing"
       THEN Exit1 /\ UNCHANGED steps
       ELSE /\ pc' = "main_pdf_found"
            /\ steps' = Append(steps, "pdf_exists")
            /\ UNCHANGED exit_status
    /\ UNCHANGED <<pdf, read_result, text, data, readme, earlier, result, network,
                   cli, edited, out_file>>

\* lines 198-204: extract_data_from_pdf(args.pdf) under try, then the preview
MainExtract ==
    /\ pc = "main_pdf_found"
    /\ IF read_result.kind = "raise"
       THEN Exit1 /\ UNCHANGED <<data, edited, steps>>
       ELSE \E r \in extract_data_from_pdf(text) :
               IF r.kind = "raise"
               THEN Exit1 /\ UNCHANGED <<data, edited, steps>>
               ELSE /\ data' = r.value
                    /\ edited' = AsHeld(r.value)
                    /\ steps' = Append(steps, "extract")
                    /\ pc' = "main_extracted"
                    /\ UNCHANGED exit_status
    /\ UNCHANGED <<pdf, read_result, text, readme, earlier, result, network, cli, out_file>>

\* lines 206-213: the question, outside any try, and prompt_edit under try
MainEdit ==
    /\ pc = "main_extracted"
    /\ IF cli.no_edit
       THEN pc' = "main_edited" /\ UNCHANGED <<edited, steps, exit_status>>
       ELSE IF Len(cli.stdin) = 0
       THEN Exit1 /\ UNCHANGED <<edited, steps>>
       ELSE IF Lower(Strip(cli.stdin[1])) \notin {"", "y", "yes"}
       THEN pc' = "main_edited" /\ UNCHANGED <<edited, steps, exit_status>>
       ELSE \E r \in {prompt_edit(edited, Tail(cli.stdin))} :
               IF r.kind = "raise"
               THEN Exit1 /\ UNCHANGED <<edited, steps>>
               ELSE /\ edited' = r.value
                    /\ steps' = Append(steps, "edit")
                    /\ pc' = "main_edited"
                    /\ UNCHANGED exit_status
    /\ UNCHANGED <<pdf, read_result, text, data, readme, earlier, result, network,
                   cli, out_file>>

\* lines 216-222: _normalize_url on github, linkedin and website, outside any
\* try; data["profiles"] is never a str
MainNormalize ==
    /\ pc = "main_edited"
    /\ \E g \in {_normalize_url(edited.github)} :
       \E l \in {_normalize_url(edited.linkedin)} :
       \E w \in {_normalize_url(edited.website)} :
           IF g.kind = "raise" \/ l.kind = "raise" \/ w.kind = "raise"
           THEN Exit1 /\ UNCHANGED <<edited, steps>>
           ELSE /\ edited' = [edited EXCEPT !.github = g.value, !.linkedin = l.value,
                                            !.website = w.value]
                /\ steps' = Append(steps, "normalize")
                /\ pc' = "main_normalized"
                /\ UNCHANGED exit_status
    /\ UNCHANGED <<pdf, read_result, text, data, readme, earlier, result, network,
                   cli, out_file>>

\* the same with the exception of generate_readme swallowed: main goes on
\* with an empty document
MainGenerate_GoesOn ==
    /\ pc = "main_normalized"
    /\ readme' = main_generate_readme(edited)
    /\ pc' = "main_generated"
    /\ steps' = IF readme'.kind = "return" THEN Append(steps, "generate") ELSE steps
    /\ UNCHANGED <<pdf, read_result, text, data, earlier, result, network,
                   cli, edited, out_file, exit_status>>

\* lines 224-228: generate_readme(data) under try
MainGenerate ==
    /\ pc = "main_normalized"
    /\ readme' = main_generate_readme(edited)
    /\ IF readme'.kind = "raise"
       THEN Exit1 /\ UNCHANGED steps
       ELSE /\ steps' = Append(steps, "generate")
            /\ pc' = "main_generated"
            /\ UNCHANGED exit_status
    /\ UNCHANGED <<pdf, read_result, text, data, earlier, result, network,
                   cli, edited, out_file>>

\* lines 230-246: open(out_path, "w"), write and close; open creates the file
\* or empties it
MainWrite ==
    /\ pc = "main_generated"
    /\ pc' = "exited"
    /\ IF cli.output = "open_fails"
       THEN /\ exit_status' = << 1 >>
            /\ UNCHANGED <<out_file, steps>>
       ELSE IF cli.output = "write_fails"
       THEN /\ exit_status' = << 1 >>
            /\ out_file' = [exists |-> TRUE, content |-> ""]
            /\ steps' = Append(steps, "open")
       ELSE /\ exit_status' = << 0 >>
            /\ out_file' = [exists |-> TRUE, content |-> readme.value]
            /\ steps' = steps \o << "open", "write" >>
    /\ UNCHANGED <<pdf, read_result, text, data, readme, earlier, result, network,
                   cli, edited>>

NextMain ==
    CheckPdfIsFile \/ MainExtract \/ MainEdit \/ MainNormalize \/ MainGenerate \/ MainWrite

SpecMain == InitMain /\ [][NextMain]_vars

(***************************************************************************)
(* Claims about the text source adapter.                                   *)
(***************************************************************************)
Backends == {"plumber", "pypdf"}

\* what page i contributes when backend b produced the text
Contribution(b, i) == IF pdf.pages[i][b] = "text" THEN PageTexts[i] ELSE ""

SegmentsAre(b) ==
    IF Len(pdf.pages) = 0 THEN read_result.value = ""
    ELSE LET seg == SplitOn(read_result.value, "\n") IN
         /\ Len(seg) = Len(pdf.pages)
         /\ \A i \in 1..Len(pdf.pages) : seg[i] = Contribution(b, i)

\* C5: whenever _read_pdf_text returns, the result is one newline-separated
\* segment per page, in page order, each the page's text from the backend that
\* produced the result, or "" where that backend raised or yielded nothing.
C5_PagesJoinedInOrder ==
    read_result.kind = "return" => \E b \in Backends : SegmentsAre(b)

\* the fallback produced the text: page 1 raised there, page 2 gave text
C5_Witness ==
    /\ read_result.kind = "return"
    /\ pdf.plumber # "ok"
    /\ Len(pdf.pages) = 2
    /\ pdf.pages[1].pypdf = "raise"
    /\ pdf.pages[2].pypdf = "text"
    /\ read_result.value = "\n" \o PageTexts[2]

\* C6: _read_pdf_text raises only when the document cannot be opened at all,
\* i.e. when no backend is both importable and able to open it; a failure of a
\* single page's extract_text never makes the call raise.
C6_RaisesOnlyWhenUnopenable ==
    read_result.kind = "raise" => (pdf.plumber # "ok" /\ pdf.pypdf # "ok")

(***************************************************************************)
(* Claims about the document renderer.  They read the returned markup.     *)
(***************************************************************************)
Returned == pc = "done" /\ readme.kind = "return"

DocLines == SplitOn(readme.value, "\n")

\* the section a line opens, "" when it opens none
SectionOpenedBy(line) ==
    IF StartsWith(line, "<h1 align=\"center\">") THEN "header"
    ELSE IF StartsWith(line, "<h3 align=\"center\">") THEN "occupation"
    ELSE IF line = "<!-- Social icons section -->" THEN "social"
    ELSE IF line = "<!-- Personal website highlight -->" THEN "website"
    ELSE IF line = "<summary><h2>:hammer_and_wrench: Skills</h2></summary>" THEN "skills"
    ELSE IF line = "<summary><h2>:blue_book: GitHub Projects</h2></summary>" THEN "projects"
    ELSE IF line = "<summary><h2>:bar_chart: GitHub Stats</h2></summary>" THEN "stats"
    ELSE IF line = "---" THEN "footer"
    ELSE ""

\* the sections of the document, in the order they appear
DocSections ==
    LET lines == DocLines
        opened == [i \in 1..Len(lines) |-> SectionOpenedBy(lines[i])]
    IN  NonEmpty(opened)

SECTION_ORDER ==
    << "header", "occupation", "social", "website", "skills", "projects", "stats", "footer" >>

IndexIn(seq, x) == CHOOSE i \in 1..Len(seq) : seq[i] = x

AnyChannelPopulated ==
    \/ data.email # ""
    \/ data.linkedin # ""
    \/ data.github # ""
    \/ \E i \in 1..Len(data.profiles) : data.profiles[i].url # ""

\* C1: generate_readme returns a markup string and does not raise, whichever
\* optional fields of the record are empty or populated.
C1_NeverRaises == pc = "done" => readme.kind = "return"

\* C7: in every returned document the sections appear in the fixed order
\* header, occupation, social icons, website highlight, skills, projects,
\* statistics, footer, each at most once; header and footer always appear and a
\* conditional section appears only if its data is non-empty.
C7_SectionOrder ==
    Returned =>
        LET secs == DocSections IN
        /\ \A i \in 1..(Len(secs) - 1) :
              IndexIn(SECTION_ORDER, secs[i]) < IndexIn(SECTION_ORDER, secs[i + 1])
        /\ InSeq("header", secs)
        /\ InSeq("skills", secs)
        /\ InSeq("footer", secs)
        /\ InSeq("occupation", secs) => data.occupation # ""
        /\ InSeq("social", secs) => AnyChannelPopulated
        /\ InSeq("website", secs) => data.website # ""
        /\ InSeq("projects", secs) => data.github # ""
        /\ InSeq("stats", secs) => data.github # ""

\* a document with all eight sections
C7_Witness == Returned /\ DocSections = SECTION_ORDER

\* s.split(sep) for a separator of several characters that cannot overlap itself
SplitOnStr(s, sep) ==
    LET cuts == Positions(s, LAMBDA i : i + Len(sep) - 1 <= Len(s) /\ MatchAt(s, i, sep))
    IN  [k \in 1..(Len(cuts) + 1) |->
            SubSeq(s,
                   IF k = 1 THEN 1 ELSE cuts[k - 1] + Len(sep),
                   IF k > Len(cuts) THEN Len(s) ELSE cuts[k] - 1)]

\* the text of s between the first `open` and the next `close`
Between(s, open, close) ==
    LET from == FindFrom(s, open, 1) + Len(open)
    IN  SubSeq(s, from, FindFrom(s, close, from) - 1)

\* the link target a populated channel must have
ExpectedHref(channel) ==
    CASE channel = "email" -> "mailto:" \o data.email
      [] channel = "linkedin" -> data.linkedin
      [] channel = "github" -> data.github
      [] OTHER -> ProfileGet(data.profiles, channel)

Populated(channel) ==
    CASE channel = "email" -> data.email # ""
      [] channel = "linkedin" -> data.linkedin # ""
      [] channel = "github" -> data.github # ""
      [] OTHER -> ProfileGet(data.profiles, channel) # ""

\* the row of icons of a document given by its lines: the second line after
\* the marker; << >> when the document has no row
IconRows(lines) ==
    IF InSeq("<!-- Social icons section -->", lines)
    THEN << lines[IndexIn(lines, "<!-- Social icons section -->") + 2] >>
    ELSE << >>

\* the link targets of the icons of a row, in order
HrefsOf(rows) ==
    IF Len(rows) = 0 THEN << >>
    ELSE LET anchors == SplitOnStr(rows[1], "&nbsp;&nbsp;&nbsp;&nbsp;&nbsp;")
         IN  [i \in 1..Len(anchors) |-> Between(anchors[i], "<a href=\"", "\"><img")]

RowHrefs == HrefsOf(IconRows(DocLines))

\* the populated channels among `order`, in that order
PopulatedIn(order) == SelectSeq(order, LAMBDA c : Populated(c))

\* the order of the data model: email, linkedin, github, then the profile keys
\* as enumerated
CHANNELS_AS_ENUMERATED ==
    << "email", "linkedin", "github",
       "instagram", "x", "twitter", "gitlab", "tiktok", "facebook", "stackoverflow",
       "medium", "devto", "kaggle", "codepen", "leetcode", "hackerrank", "bitbucket",
       "google_scholar", "arxiv", "orcid", "dialnet", "scopus", "researchgate",
       "academia", "website" >>

\* the same with facebook before tiktok
CHANNELS_FACEBOOK_FIRST ==
    << "email", "linkedin", "github",
       "instagram", "x", "twitter", "gitlab", "facebook", "tiktok", "stackoverflow",
       "medium", "devto", "kaggle", "codepen", "leetcode", "hackerrank", "bitbucket",
       "google_scholar", "arxiv", "orcid", "dialnet", "scopus", "researchgate",
       "academia", "website" >>

\* the icons of the row link to populated channels in the order `order`
RowFollows(order) ==
    LET hrefs == RowHrefs
        chans == PopulatedIn(order)
        target == [a \in 1..Len(chans) |-> ExpectedHref(chans[a])]
    IN  \A i \in 1..Len(hrefs) : \A j \in (i + 1)..Len(hrefs) :
            \E a \in 1..Len(target) : \E b \in (a + 1)..Len(target) :
                target[a] = hrefs[i] /\ target[b] = hrefs[j]

\* C8 as claimed: the icons of the row appear in the order email, linkedin,
\* github, then the profile keys in the enumeration order of the data model
\* (... gitlab, tiktok, facebook, ...).
C8_OrderAsEnumerated == Returned => RowFollows(CHANNELS_AS_ENUMERATED)

\* C8 as amended: the icons of the row appear in the order email, linkedin,
\* github, instagram, x, twitter, gitlab, facebook, tiktok, stackoverflow, then
\* the remaining profile keys as enumerated: facebook precedes tiktok.
C8_OrderFacebookFirst == Returned => RowFollows(CHANNELS_FACEBOOK_FIRST)

\* a row that shows facebook and tiktok, facebook first
C8_Witness ==
    /\ Returned
    /\ RowHrefs = << data.github, SampleUrl("facebook"), SampleUrl("tiktok") >>

\* C9: the row has exactly one icon for each populated channel among email,
\* linkedin, github and every populated profiles entry (website included), each
\* linking to the channel's URL (mailto: for email), and the row is omitted iff
\* no channel is populated.
C9_OneIconPerPopulatedChannel ==
    Returned =>
        LET hrefs == RowHrefs
            chans == PopulatedIn(CHANNELS_AS_ENUMERATED)
            target == [a \in 1..Len(chans) |-> ExpectedHref(chans[a])]
        IN  /\ Len(hrefs) > 0 <=> AnyChannelPopulated
            /\ \A a \in 1..Len(target) :
                  Cardinality({ i \in 1..Len(hrefs) : hrefs[i] = target[a] }) = 1
            /\ \A i \in 1..Len(hrefs) : InSeq(hrefs[i], target)

NoSkillClassifies ==
    /\ Len(langs_found(data)) = 0
    /\ Len(frameworks_found(data)) = 0
    /\ Len(dbs_found(data)) = 0
    /\ Len(devtools_found(data)) = 0

\* the lines of the skills block between its summary line and its closing tag
SkillsBlockBody ==
    LET lines == DocLines
        open == IndexIn(lines, "<summary><h2>:hammer_and_wrench: Skills</h2></summary>")
        closes == SelectSeq([i \in 1..Len(lines) |-> i],
                            LAMBDA i : i > open /\ lines[i] = "</details>")
    IN  SubSeq(lines, open + 1, closes[1] - 1)

\* C10: when no skill classifies into any category (skills empty included), the
\* skills block holds a placeholder notice: it is not an empty block.
C10_PlaceholderWhenNoCategory ==
    (Returned /\ NoSkillClassifies) => Len(SkillsBlockBody) > 0

\* the lines of the block under the summary line `summary`, up to its closing
\* tag
BlockBody(lines, summary) ==
    LET body(open) ==
            SubSeq(lines, open + 1,
                   FirstOr(SelectSeq([i \in 1..Len(lines) |-> i],
                                     LAMBDA i : i > open /\ lines[i] = "</details>"),
                           Len(lines) + 1) - 1)
    IN  body(IndexIn(lines, summary))

\* the lines of a block that hold an image
ImageLines(body) == SelectSeq(body, LAMBDA l : Contains(l, "<img"))

\* C11: when the record has a GitHub URL the projects block is not left
\* without content: it holds one to six repository cards or, failing the
\* fetch, the language badges; and generate_readme returns.
C11_ProjectsBlockHasContent ==
    (pc = "done" /\ data.github # "") =>
        /\ readme.kind = "return"
        /\ InSeq("projects", DocSections)
        /\ \E n \in 1..6 :
              Len(ImageLines(BlockBody(DocLines,
                      "<summary><h2>:blue_book: GitHub Projects</h2></summary>"))) = n

\* the last path segment of the github URL, trailing slashes stripped
ExpectedUsername == Last(SplitOn(RStripChars(data.github, {"/"}), "/"))

\* C12: the statistics block is in the document exactly when a username is
\* resolved from the github URL; it then holds exactly two images, both
\* parameterised by that username; with an empty github the document is
\* returned without the block.
C12_StatsBlockIffUsername ==
    pc = "done" =>
        /\ readme.kind = "return"
        /\ InSeq("stats", DocSections) <=> ExpectedUsername # ""
        /\ InSeq("stats", DocSections) =>
              LET images == ImageLines(BlockBody(DocLines,
                                "<summary><h2>:bar_chart: GitHub Stats</h2></summary>"))
              IN  /\ Len(images) = 2
                  /\ \A i \in 1..2 : Contains(images[i], "username=" \o ExpectedUsername)

\* where the classifier first detects the pair b of a table: the skills in
\* their order, the keys of the table in theirs, 0 when it never does
DetectionRank(table, skills, b) ==
    LET at == { (i - 1) * Len(table) + k : i \in 1..Len(skills), k \in 1..Len(table) }
        hits == { r \in at :
                    LET i == ((r - 1) \div Len(table)) + 1
                        k == ((r - 1) % Len(table)) + 1
                    IN  /\ << table[k].label, table[k].badge >> = b
                        /\ KeyMatches(table[k].key, norm(skills[i])) }
    IN  IF hits = {} THEN 0 ELSE CHOOSE r \in hits : \A q \in hits : r <= q

\* a badge list holds each detected pair of its table once, in detection order
InDetectionOrder(table, found) ==
    /\ \A i \in 1..Len(found) : DetectionRank(table, data.skills, found[i]) > 0
    /\ \A i \in 1..Len(found) : \A j \in 1..Len(found) :
          i < j => DetectionRank(table, data.skills, found[i])
                       < DetectionRank(table, data.skills, found[j])
    /\ \A k \in 1..Len(table) :
          (\E i \in 1..Len(data.skills) : KeyMatches(table[k].key, norm(data.skills[i])))
              => InSeq(<< table[k].label, table[k].badge >>, found)

\* the labels of the badges of the skills block, as the document shows them
BadgeLabels ==
    LET images == ImageLines(SkillsBlockBody)
    IN  [i \in 1..Len(images) |-> Between(images[i], "alt=\"", "\"")]

\* C20: each of the four badge lists holds every detected (label, badge) pair
\* once, in the order of detection (skills in their order, then the keys of
\* the table in theirs), and the document shows the badges in that order;
\* the skills Python, python, Java give the languages Python then Java.
C20_BadgesOnceInDetectionOrder ==
    pc = "extracted" \/ Returned =>
        LET langs == langs_found(data)
            frameworks == frameworks_found(data)
            dbs == dbs_found(data)
            devtools == devtools_found(data)
            all == langs \o frameworks \o dbs \o devtools
        IN  /\ InDetectionOrder(LANG_BADGES, langs)
            /\ InDetectionOrder(FRAMEWORK_BADGES, frameworks)
            /\ InDetectionOrder(DB_BADGES, dbs)
            /\ InDetectionOrder(DEVELOPMENT_TOOLS_BADGES, devtools)
            /\ Returned => BadgeLabels = [i \in 1..Len(all) |-> all[i][1]]
            /\ data.skills = << "Python", "python", "Java" >>
                  => [i \in 1..Len(langs) |-> langs[i][1]] = << "Python", "Java" >>

C20_Witness ==
    /\ Returned
    /\ data.skills = << "Python", "python", "Java" >>
    /\ BadgeLabels = << "Python", "Java" >>


\* the (label, badge) pairs of the images under the heading `heading` of the
\* skills block, up to the next heading
SubsectionBadges(heading) ==
    LET body == SkillsBlockBody
        at == { i \in 1..Len(body) : body[i] = heading }
        under(i) == { j \in (i + 1)..Len(body) :
                        /\ Contains(body[j], "<img")
                        /\ \A m \in (i + 1)..j : ~Contains(body[m], "<h3>") }
    IN  UNION { { << Between(body[j], "alt=\"", "\""), Between(body[j], "src=\"", "\"") >> :
                    j \in under(i) } : i \in at }

\* the pairs of the keys of a table that occur in a normalised skill
ContainedBadges(table) ==
    { << table[k].label, table[k].badge >> :
        k \in { m \in 1..Len(table) :
                  \E i \in 1..Len(data.skills) :
                      Contains(norm(data.skills[i]), table[m].key) } }

\* C26: in a returned document each of the four subsections shows the badge
\* of a key of its table exactly when the key occurs in a normalised skill
\* as a substring, whatever the other tables hold: the skill Docker shows in
\* the frameworks and in the tools, and gives the languages C and R.
C26_SubstringMatchPerCategory ==
    Returned =>
        /\ SubsectionBadges("  <h3>:man_technologist: Programming and Markup Languages</h3>")
              = ContainedBadges(LANG_BADGES)
        /\ SubsectionBadges("  <h3>:toolbox: Frameworks and Libraries</h3>")
              = ContainedBadges(FRAMEWORK_BADGES)
        /\ SubsectionBadges("  <h3>:file_cabinet: Databases</h3>")
              = ContainedBadges(DB_BADGES)
        /\ SubsectionBadges("  <h3>:bulb: Development Tools and Others</h3>")
              = ContainedBadges(DEVELOPMENT_TOOLS_BADGES)

C26_Witness ==
    /\ Returned
    /\ InSeq("Docker", data.skills)
    /\ \E b \in SubsectionBadges("  <h3>:toolbox: Frameworks and Libraries</h3>") :
          b[1] = "Docker"
    /\ \E b \in SubsectionBadges("  <h3>:bulb: Development Tools and Others</h3>") :
          b[1] = "Docker"
    /\ \E b \in SubsectionBadges("  <h3>:man_technologist: Programming and Markup Languages</h3>") :
          b[1] = "R"


\* the lines of the language subsection that hold an image
LanguageImageLines ==
    LET body == SkillsBlockBody
        at == { i \in 1..Len(body) :
                  body[i] = "  <h3>:man_technologist: Programming and Markup Languages</h3>" }
    IN  SelectSeq([j \in 1..Len(body) |-> IF \E i \in at : /\ i < j
                                                           /\ \A m \in (i + 1)..j :
                                                                 ~Contains(body[m], "<h3>")
                                           THEN body[j] ELSE ""],
                  LAMBDA l : Contains(l, "<img"))

\* C27: when a language is found, generate_readme returns a document whose
\* language badges are each inside a link to the search for
\* user:<username> language:<label> when the record has a GitHub URL, and are
\* plain images, outside any link, when it has none.
C27_LanguageLinksIffGithub ==
    (pc = "done" /\ Len(langs_found(data)) > 0) =>
        /\ readme.kind = "return"
        /\ Len(LanguageImageLines) = Len(langs_found(data))
        /\ \A i \in 1..Len(LanguageImageLines) :
              LET line == LanguageImageLines[i]
                  label == Between(line, "alt=\"", "\"")
              IN  IF data.github # ""
                  THEN Contains(line, "<a href=\"https://github.com/search?q=user%3A"
                                          \o ExpectedUsername \o "+language%3A"
                                          \o Quote(label) \o "\"><img ")
                  ELSE ~Contains(line, "<a ") /\ ~Contains(line, "href")

(***************************************************************************)
(* Claims about the field extractor.                                       *)
(***************************************************************************)
Extracted == pc \in {"extracted", "done"}

Trimmed(s) == s # "" /\ Ch(s, 1) \notin Whitespace /\ Ch(s, Len(s)) \notin Whitespace

EmptyOrTrimmed(s) == s = "" \/ Trimmed(s)

\* C2: for a text with no name-like line, no contact information and no skills
\* section the extracted record is the all-default record, and the document
\* rendered from it has the generic header and the footer, no social icon
\* row, no projects block and no statistics block, and a placeholder notice
\* in its skills block.
C2_BlankTextValidDocument ==
    text \in BLANK_TEXTS =>
        /\ Extracted => data = EmptyData
        /\ pc = "done" =>
              /\ readme.kind = "return"
              /\ LET secs == DocSections
                 IN  /\ InSeq("header", secs)
                     /\ InSeq("footer", secs)
                     /\ ~InSeq("social", secs)
                     /\ ~InSeq("projects", secs)
                     /\ ~InSeq("stats", secs)
              /\ Len(SkillsBlockBody) > 0

\* C3: for the text of the lines "Jane Doe", "Software Engineer",
\* "jane@example.com", "github.com/janedoe", "Skills: Python, React, Docker"
\* the record has first_name "Jane", last_name "Doe", occupation "Software
\* Engineer", email "jane@example.com", github "https://github.com/janedoe"
\* and skills exactly Python, React, Docker.
C3_JaneDoeScenario ==
    (text = JANE_DOE_TEXT /\ Extracted) =>
        /\ data.first_name = "Jane"
        /\ data.last_name = "Doe"
        /\ data.occupation = "Software Engineer"
        /\ data.email = "jane@example.com"
        /\ data.github = "https://github.com/janedoe"
        /\ data.skills = << "Python", "React", "Docker" >>

C14_SkillsDistinctInOrder ==
    Extracted =>
        /\ \A i \in 1..Len(data.skills) : data.skills[i] # ""
        /\ \A i \in 1..Len(data.skills) : \A j \in 1..Len(data.skills) :
              i # j => data.skills[i] # data.skills[j]
        /\ text = REPEATED_SKILL_TEXT => data.skills = << "Python", "SQL" >>

\* C15: a bare linkedin.com/in/h or github.com/h alone in the text is stored
\* after the canonical https prefix; an absolute URL is stored with its own
\* scheme and host, without the trailing slash; a stored linkedin or github
\* value never ends with a slash.
C15_HandleUrlsNormalised ==
    Extracted =>
        /\ \A h \in HANDLES : \A slash \in {"", "/"} :
              /\ text = "linkedin.com/in/" \o h \o slash
                    => data.linkedin = "https://www.linkedin.com/in/" \o h
              /\ text = "github.com/" \o h \o slash
                    => data.github = "https://github.com/" \o h
              /\ \A pre \in {"http://", "https://", "https://www."} :
                    /\ text = pre \o "github.com/" \o h \o slash
                          => data.github = pre \o "github.com/" \o h
                    /\ text = pre \o "linkedin.com/in/" \o h \o slash
                          => data.linkedin = pre \o "linkedin.com/in/" \o h
        /\ data.linkedin # "" => Ch(data.linkedin, Len(data.linkedin)) # "/"
        /\ data.github # "" => Ch(data.github, Len(data.github)) # "/"

C15_Witness ==
    /\ pc = "extracted"
    /\ text = "http://github.com/bob/"
    /\ data.github = "http://github.com/bob"
    /\ data.linkedin = ""

\* C16: for each of the 21 services, a text made of the profile address of a
\* handle (either scheme, www. where optional, with or without the trailing
\* slash) yields profiles[key] = the canonical prefix of the service followed
\* by the handle; so the canonical URL itself is extracted unchanged.
C16_ProfileUrlsCanonical ==
    Extracted =>
        \A k \in 1..Len(HOST_KEYS) :
            text \in ProfileUrlTexts(HOST_KEYS[k])
                => ProfileGet(data.profiles, HOST_KEYS[k]) = SampleUrl(HOST_KEYS[k])

\* the host of an absolute URL: what stands between the scheme and the first
\* of / ? # :
HostOf(u) ==
    LET from(g) == SubSeq(u, g, RunEnd(u, g, UrlChars \ {"/", "?", "#", ":"}) - 1)
    IN  from(SchemeEnd(u, 1))

\* the host of u is one of the known hosts, or a subdomain of one
OnKnownHost(u) ==
    \E h \in 1..Len(known_hosts) :
        \/ HostOf(u) = known_hosts[h]
        \/ /\ Len(HostOf(u)) > Len(known_hosts[h])
           /\ SubSeq(HostOf(u), Len(HostOf(u)) - Len(known_hosts[h]), Len(HostOf(u)))
                 = "." \o known_hosts[h]

\* C17: profiles["website"] is the first http(s) URL of the text whose host is
\* not a known service host (without the punctuation that closes it); a URL
\* is passed over only for its host; when every URL is on a known host the key
\* is absent.
C17_WebsiteIsFirstForeignUrl ==
    Extracted =>
        LET foreign == SelectSeq(all_urls(text), LAMBDA u : ~OnKnownHost(u))
        IN  IF Len(foreign) = 0 THEN ~HasKey(data.profiles, "website")
            ELSE /\ HasKey(data.profiles, "website")
                 /\ ProfileGet(data.profiles, "website")
                       = RStripChars(foreign[1], {".", ",", ";", ")"})

\* the service of key shows in the text: a URL on its host, or any http(s) URL
\* for the key "website"
Detected(key) ==
    IF key = "website" THEN Contains(text, "http://") \/ Contains(text, "https://")
    ELSE \E pre \in {"://", "://www."} :
             Contains(Lower(text), pre \o HostOf("https://" \o StripSchemeWww(Base(key))))

\* C18: every key of profiles is one of the enumerated service keys (or
\* "website"), occurs once, is there only when the service shows in the text,
\* and maps to a non-empty absolute URL: for a service, one that begins with
\* its canonical prefix.
C18_ProfilesWellFormed ==
    Extracted =>
        \A i \in 1..Len(data.profiles) :
            LET key == data.profiles[i].key
                url == data.profiles[i].url
            IN  /\ InSeq(key, PROFILE_KEYS)
                /\ \A j \in 1..Len(data.profiles) : data.profiles[j].key = key => j = i
                /\ Detected(key)
                /\ url # ""
                /\ StartsWith(url, "http://") \/ StartsWith(url, "https://")
                /\ key # "website" => StartsWith(url, Base(key))

C18_Witness ==
    /\ pc = "extracted"
    /\ text = "https://x.com/jane_d and https://www.tiktok.com/@janed"
    /\ data.profiles = << [key |-> "x", url |-> "https://x.com/jane_d"],
                          [key |-> "tiktok", url |-> "https://www.tiktok.com/@janed"] >>

\* C13: two runs on the same text end alike: the record and the document (or
\* the exception) of a finished run equal those of every earlier run on that
\* text, whatever order the set of name tokens is iterated in.
C13_RunsAgree ==
    /\ pc \in {"done", "extract_failed"} =>
          \A i \in 1..Len(earlier) :
              earlier[i] = [pc |-> pc, data |-> data, readme |-> readme]
    /\ pc = "extracted" => \A i \in 1..Len(earlier) : earlier[i].data = data

\* a second run on a text whose two name tokens have one length
C13_Witness ==
    /\ pc = "done"
    /\ Len(earlier) = 1
    /\ text = "github.com/janedoe\n  Software Engineer  "
    /\ data.first_name = "Software"
    /\ readme.kind = "return"
    /\ earlier[1].readme = readme


\* the first six lines of the text, each without the name tokens
CleanedTopLines(order) ==
    LET top(lines) == SubSeq(lines, 1, IF Len(lines) < 6 THEN Len(lines) ELSE 6)
        cleaned(lines) == [k \in 1..Len(lines) |-> _remove_name_tokens(lines[k], order)]
    IN  cleaned(top(lines_of(text)))

\* C21: when one of the first six lines, without the name tokens, holds a
\* keyword as a whole word, the occupation is the first such line, cleaned;
\* otherwise, when one of them holds a keyword run-together, the occupation
\* comes from the first such line (it begins with the title-cased first
\* keyword of that line); otherwise it is what the segments of the whole text
\* give.
C21_WholeWordLineFirst ==
    Extracted =>
        \E order \in sorted_name_tokens(name_tokens_of(name_parts(lines_of(text)))) :
            LET whole(cleaned) ==
                    SelectSeq(cleaned, LAMBDA c : has_word(Lower(c), occ_keywords))
                runon(cleaned) ==
                    SelectSeq(cleaned, LAMBDA c : Len(compact_matches(Lower(c))) > 0)
                settled(cleaned) ==
                    IF Len(whole(cleaned)) > 0 THEN data.occupation = whole(cleaned)[1]
                    ELSE IF Len(runon(cleaned)) > 0
                    THEN StartsWith(data.occupation,
                                    title(compact_matches(Lower(runon(cleaned)[1]))[1]))
                    ELSE data.occupation = occupation_from_segments(text, order)
            IN  settled(CleanedTopLines(order))


\* C22: when none of the first six lines holds a keyword as a whole word and
\* one of them holds keywords run-together, the occupation is the title-cased
\* forms of all the keywords found in the first such line, each once, in the
\* order of the vocabulary, joined with " and ".
C22_RunOnKeywordsJoined ==
    Extracted =>
        \E order \in sorted_name_tokens(name_tokens_of(name_parts(lines_of(text)))) :
            LET whole(cleaned) ==
                    SelectSeq(cleaned, LAMBDA c : has_word(Lower(c), occ_keywords))
                runon(cleaned) ==
                    SelectSeq(cleaned, LAMBDA c : Len(compact_matches(Lower(c))) > 0)
                titles(matches) == [j \in 1..Len(matches) |-> title(matches[j])]
                joined(cleaned) ==
                    (Len(whole(cleaned)) = 0 /\ Len(runon(cleaned)) > 0) =>
                        data.occupation
                            = JoinWith(titles(compact_matches(Lower(runon(cleaned)[1]))),
                                       " and ")
            IN  joined(CleanedTopLines(order))


\* C23: the name comes from the first of the first ten lines with text that is
\* name-like (letters, blanks, hyphens and apostrophes after a first letter,
\* no "@", two tokens or more): first_name is its first token, last_name the
\* other tokens with one blank between them. A name-like line further down
\* is not used, and without such a line among the ten both fields are empty.
C23_NameFromFirstTenLines ==
    Extracted =>
        LET named(lines) ==
                { k \in 1..Len(lines) : k <= 10 /\ is_name_line(lines[k]) }
            first(lines, ks) == CHOOSE k \in ks : \A j \in ks : k <= j
            tokens(ln) == SplitWs(ln)
            taken(lines, ks) ==
                IF ks = {} THEN data.first_name = "" /\ data.last_name = ""
                ELSE /\ data.first_name = tokens(lines[first(lines, ks)])[1]
                     /\ data.last_name
                           = JoinWith(Tail(tokens(lines[first(lines, ks)])), " ")
                     /\ ~Contains(data.last_name, "  ")
            from(lines) == taken(lines, named(lines))
        IN  from(lines_of(text))

\* the name-like tenth line is used, three tokens long
C23_Witness ==
    /\ pc = "extracted"
    /\ text = "1\n2\n3\n4\n5\n6\n7\n8\n9\nAda  Mary Lovelace\nJane Doe"
    /\ data.first_name = "Ada"
    /\ data.last_name = "Mary Lovelace"


\* C24: no entry of the skills is, whatever its case, one of the header words
\* that open a skills section.
C24_NoHeaderWordAmongSkills ==
    Extracted =>
        \A i \in 1..Len(data.skills) : ~InSeq(Lower(data.skills[i]), SKILL_HEADERS)


\* the trimmed fragments of the first line with a header word and of the
\* lines after it, three at most: what stands between the separators
SectionFragments ==
    LET lines == lines_of(text)
        headers == { i \in 1..Len(lines) : has_word(Lower(lines[i]), SKILL_HEADERS) }
        first(hs) == CHOOSE i \in hs : \A j \in hs : i <= j
        last(i) == IF i + 3 < Len(lines) THEN i + 3 ELSE Len(lines)
        pieces(i) == SplitOnChars(JoinWith(SubSeq(lines, i, last(i)), " "),
                                  {"-", ",", ";"})
        trimmed(ps) == { Strip(ps[k]) : k \in 1..Len(ps) }
    IN  IF headers = {} THEN {} ELSE trimmed(pieces(first(headers)))

EditedWithEmptyAnswers ==
    /\ pc = "main_edited"
    /\ Len(steps) > 0
    /\ Last(steps) = "edit"
    /\ \A k \in 2..Len(cli.stdin) : Strip(cli.stdin[k]) = ""

\* C28: after prompt_edit with every prompt left empty, the record main holds
\* equals the extracted record in every field, profiles being the same dict
\* (an empty list counting for the empty dict), and generate_readme has the
\* same outcome on it as on the extracted record.
C28_EmptyEditKeepsRecord ==
    EditedWithEmptyAnswers =>
        /\ \A k \in 1..Len(EDIT_KEYS) : edited[EDIT_KEYS[k]] = data[EDIT_KEYS[k]]
        /\ edited.skills = data.skills
        /\ \/ Len(edited.profiles.items) = 0 /\ Len(data.profiles) = 0
           \/ edited.profiles.type = "dict" /\ edited.profiles.items = data.profiles
        /\ main_generate_readme(edited) = generate_readme(data)

\* the steps of a run that reached the opening of the output file
STEPS_BEFORE_OPEN ==
    { << "pdf_exists", "extract", "normalize", "generate" >>,
      << "pdf_exists", "extract", "edit", "normalize", "generate" >> }

\* what of steps comes before "open", all of it when the file was not opened
BeforeOpen ==
    SubSeq(steps, 1,
           FirstOr(SelectSeq([i \in 1..Len(steps) |-> i], LAMBDA i : steps[i] = "open"),
                   Len(steps) + 1) - 1)

\* C29: the output file is opened only after the check of the PDF, the
\* extraction, the edit when there is one, and the generation have succeeded,
\* in this order, generate_readme having returned; a process that ended
\* without all of them has status 1, and the output path is as it was before
\* the run, absent or with its old content.
C29_OutputOpenedLast ==
    /\ InSeq("open", steps) =>
          /\ BeforeOpen \in STEPS_BEFORE_OPEN
          /\ readme.kind = "return"
    /\ ~InSeq("open", steps) => out_file = cli.out_before
    /\ (pc = "exited" /\ BeforeOpen \notin STEPS_BEFORE_OPEN) =>
          /\ exit_status = << 1 >>
          /\ out_file = cli.out_before
    /\ exit_status = << 0 >> =>
          /\ Last(steps) = "write"
          /\ out_file = [exists |-> TRUE, content |-> readme.value]

\* generate_readme failed on the edited record: status 1, the old file intact
C29_Witness ==
    /\ pc = "exited"
    /\ steps = << "pdf_exists", "extract", "edit", "normalize" >>
    /\ readme.kind = "raise"
    /\ exit_status = << 1 >>
    /\ cli.output = "writable"
    /\ out_file = [exists |-> TRUE, content |-> "# old README"]

(***************************************************************************)
(* Claims about the GitHub lookup.                                         *)
(***************************************************************************)
\* C19: verify_github_user makes at most one request and never raises; it
\* returns True exactly when a request was made and answered with status 200;
\* for an empty username no request is made and the value is False.  In
\* extract_github_info a failed lookup leaves the username found in the
\* result, with verified = False.
C19_LookupSingleAttemptNoRaise ==
    /\ pc \notin {"info_raised", "verify_raised"}
    /\ network.calls <= 1
    /\ pc \in {"info_returned", "verify_returned"} =>
          /\ result.verified <=>
                /\ network.calls = 1
                /\ network.outcome.raised = ""
                /\ network.outcome.status = 200
          /\ result.username \in {None, << "" >>} => network.calls = 0
    /\ (pc = "info_returned" /\ network.calls = 1 /\ ~result.verified) =>
          /\ result.username = find_github_username(text)
          /\ result.username # None

\* the lookup of a username found in the document failed on a timeout
C19_Witness ==
    /\ pc = "info_returned"
    /\ network.calls = 1
    /\ network.outcome.raised = "Timeout"
    /\ result = [username |-> << "example" >>, verified |-> FALSE, text_extracted |-> TRUE]


\* C30: while extract_github_info runs and when it has returned, verified
\* implies a username, and a username implies text_extracted; the username
\* is searched only in a text that is not empty, and the lookup is made only
\* for a username found in that text.
C30_InfoResultConsistent ==
    pc \in {"info_start", "info_text", "info_username", "info_returned"} =>
        /\ result.verified => result.username # None
        /\ result.username # None => result.text_extracted
        /\ result.text_extracted => text # ""
        /\ pc = "info_text" => text # "" /\ result.text_extracted
        /\ pc = "info_username" => result.username # None
        /\ network.calls > 0 =>
              /\ result.username # None
              /\ result.username = find_github_username(text)

\* a username found in the document and verified
C30_Witness ==
    /\ pc = "info_returned"
    /\ network.calls = 1
    /\ result = [username |-> find_github_username(text), verified |-> TRUE,
                 text_extracted |-> TRUE]
    /\ result.username # None

=============================================================================
